---- MODULE Spec2Model ----
(***************************************************************************)
(* Persistent session orchestrator of ui-review (bin/server.js): the watch *)
(* session registry, the review pipeline (runReview), the poll cycle       *)
(* (runPollCycle), the browser disconnect observers, the stop route and   *)
(* the shutdown sweep.                                                     *)
(* One report id is modelled; every await of the code is a step boundary.  *)
(***************************************************************************)
EXTENDS Integers, Sequences, FiniteSets, TLC

\* ------------------------------------------------------------------ bounds
NumPages == 2         \* pages a request may list
NumViewports == 2     \* viewports a request may list
MaxExec == 2          \* pipeline executions (runReview / runPollCycle) in flight
MaxSessions == 2      \* session objects created over a behaviour
MaxBrowsers == 2      \* persistent browsers launched over a behaviour
MaxEvents == 1        \* environment events (failed awaits, client disconnects,
                      \* changed page content) over a behaviour
MaxLocs == 3          \* <loc> entries of a sitemap
MaxWidth == 2         \* width of a decoded raster, in pixels
MaxLinks == 3         \* links on the pages of a crawled site
MaxPattern == 3       \* issues in the repeating unit of an issue list
MaxRepeat == 4        \* repetitions of the unit in an issue list

\* ------------------------------------------------------- program constants
MaxIssues == 10       \* lib/report.js: .slice(0, 10)
NotFound == 404       \* stop route: unknown session
StatusOk == 200       \* stop route: session stopped

Null == 0

ExecIds == 1..MaxExec
SessionIds == 1..MaxSessions
BrowserIds == 1..MaxBrowsers
AllKeys == (1..NumPages) \X (1..NumViewports)

\* ------------------------------------------------------------ pure helpers
\* resultKey(pageName, viewportName): the page x viewport composite key
resultKey(p, v) == <<p, v>>

\* a page declares tokenAuth iff it is the first page of the list
HasTokenAuth(p) == p = 1

\* a page list of n pages with distinct names
PageList(n) == [q \in 1..n |-> q]

SEVERITIES == {"critical", "warning", "suggestion"}
CATEGORIES == {"layout", "typography", "components", "spacing",
               "visual-hierarchy", "accessibility", "responsive-fit"}

SEVERITY_ORDER(s) ==
    CASE s = "critical" -> 0
      [] s = "warning" -> 1
      [] s = "suggestion" -> 2
      [] OTHER -> 9

\* sanitizeIssue: TRUE iff the issue survives (description, severity, category)
sanitizeIssue(issue) ==
    /\ issue.description
    /\ issue.severity \in SEVERITIES
    /\ issue.category \in CATEGORIES

RECURSIVE FilterValid(_)
FilterValid(s) ==
    IF s = <<>> THEN <<>>
    ELSE IF sanitizeIssue(Head(s)) THEN <<Head(s)>> \o FilterValid(Tail(s))
         ELSE FilterValid(Tail(s))

\* stable insertion into a list sorted by SEVERITY_ORDER (Array.prototype.sort)
RECURSIVE InsertSorted(_, _)
InsertSorted(x, s) ==
    IF s = <<>> THEN <<x>>
    ELSE IF SEVERITY_ORDER(Head(s).severity) <= SEVERITY_ORDER(x.severity)
         THEN <<Head(s)>> \o InsertSorted(x, Tail(s))
         ELSE <<x>> \o s

RECURSIVE SortBySeverity(_)
SortBySeverity(s) ==
    IF s = <<>> THEN <<>>
    ELSE InsertSorted(s[Len(s)], SortBySeverity(SubSeq(s, 1, Len(s) - 1)))

Min(a, b) == IF a < b THEN a ELSE b

\* variant of sanitizeResult that caps the list before it filters it
sanitizeResultCapFirst(data) ==
    LET capped == SubSeq(data.issues, 1, Min(Len(data.issues), MaxIssues))
    IN [issues |-> SortBySeverity(FilterValid(capped)), summary |-> data.summary,
        raw |-> data.raw]

\* sanitizeResult(data): filter, cap at 10, then sort by severity
sanitizeResult(data) ==
    LET valid == FilterValid(data.issues)
        capped == SubSeq(valid, 1, Min(Len(valid), MaxIssues))
    IN [issues |-> SortBySeverity(capped), summary |-> data.summary, raw |-> data.raw]

\* Texts returned by the analysis service.  kind "json" parses to an object
\* with the given issues; "garbage" and "empty" do not parse.
Issue(sev, cat) == [severity |-> sev, category |-> cat, description |-> TRUE]
TextA == [kind |-> "json",
          issues |-> <<Issue("warning", "layout"), Issue("blocker", "layout"),
                       Issue("critical", "spacing")>>]
TextB == [kind |-> "json", issues |-> <<Issue("suggestion", "typography")>>]
TextGarbage == [kind |-> "garbage", issues |-> <<>>]
TextEmpty == [kind |-> "empty", issues |-> <<>>]
Prose == "prose"

\* parseVlmJson(text): the parsed object, or the tier-4 raw wrapper
parseVlmJson(text) ==
    IF text.kind = "json"
    THEN [issues |-> text.issues, summary |-> Prose, raw |-> FALSE]
    ELSE [issues |-> <<>>, summary |-> text.kind, raw |-> TRUE]

\* `result.summary' is truthy
Truthy(summary) == summary # "empty"

\* text whose parse produced the summary (the summary string itself)
SummaryText(summary) ==
    IF summary = "garbage" THEN TextGarbage
    ELSE IF summary = "empty" THEN TextEmpty
    ELSE [kind |-> "garbage", issues |-> <<>>]

\* Fallback 1 of both pipelines: re-parse the summary text
Fallback1(result) ==
    IF result.raw /\ Truthy(result.summary)
    THEN LET retried == parseVlmJson(SummaryText(result.summary))
         IN IF ~retried.raw THEN sanitizeResult(retried) ELSE result
    ELSE result

\* what is stored under report.results[key]
Stored(result) == [issues |-> result.issues, raw |-> result.raw]

\* ------------------------------------------------------------ report values
EmptyMap == [k \in {} |-> 0]
Put(f, k, x) == [y \in DOMAIN f \cup {k} |-> IF y = k THEN x ELSE f[y]]
Del(f, k) == [y \in DOMAIN f \ {k} |-> f[y]]

RECURSIVE CountSeverity(_, _)
CountSeverity(issues, sev) ==
    IF issues = <<>> THEN 0
    ELSE (IF Head(issues).severity = sev THEN 1 ELSE 0) + CountSeverity(Tail(issues), sev)

RECURSIVE SumOver(_, _, _)
\* sum over the keys ks of results of the issues counted by sev ("" = all)
SumOver(results, ks, sev) ==
    IF ks = {} THEN 0
    ELSE LET k == CHOOSE x \in ks : TRUE
         IN (IF sev = "" THEN Len(results[k].issues)
             ELSE CountSeverity(results[k].issues, sev))
            + SumOver(results, ks \ {k}, sev)

\* the summary recomputation of runReview and runPollCycle
Recount(results) ==
    [pages |-> Cardinality(DOMAIN results),
     issues |-> SumOver(results, DOMAIN results, ""),
     critical |-> SumOver(results, DOMAIN results, "critical"),
     warning |-> SumOver(results, DOMAIN results, "warning"),
     suggestion |-> SumOver(results, DOMAIN results, "suggestion")]

ZeroSummary == [pages |-> 0, issues |-> 0, critical |-> 0, warning |-> 0, suggestion |-> 0]

\* the report object a fresh request creates
NewReport == [status |-> "running", results |-> EmptyMap, errors |-> EmptyMap,
              summary |-> ZeroSummary]

\* the error records of report.errors: the message, and the page token the
\* message carries when it quotes the captured URL
TokenError == [message |-> "Token generation failed", token |-> Null]
CaptureError(tok) == [message |-> "Screenshot capture failed", token |-> tok]
AnalysisError == [message |-> "analyze failed", token |-> Null]
PollError(err) == [message |-> "Poll cycle error", cause |-> err.message, token |-> err.token]

NoReport == [status |-> "missing", results |-> EmptyMap, errors |-> EmptyMap,
             summary |-> ZeroSummary]

\* ------------------------------------------------------------------- state
VARIABLES
    watchSessions,  \* the registry entry of the report id: a session id or Null
    sessions,       \* session objects ever created, by session id
    browsers,       \* persistent browsers ever launched, with their observer
    timers,         \* session ids whose setInterval poll timer is armed
    reportFile,     \* the report document on disk
    shots,          \* screenshot files on disk: key -> raster
    runs,           \* pipeline executions in flight, by slot
    stopReq,        \* the stop route between its close and its delete
    stopResp,       \* status of the last stop response
    throwaway,      \* per slot: the browser captureScreenshot launched itself
    shutdown,       \* the shutdown sweep: idle, closing session s, or exited
    calc,           \* a call of a pure function: its name, arguments and result
    events          \* environment events spent so far

vars == <<watchSessions, sessions, browsers, timers, reportFile, shots, runs,
          stopReq, stopResp, throwaway, shutdown, calc, events>>

NoResult == [issues |-> <<>>, summary |-> Prose, raw |-> FALSE]

IdleRun == [kind |-> "none", pc |-> "idle", sess |-> Null, watch |-> FALSE,
            first |-> FALSE, poll |-> 0, auth |-> FALSE, pages |-> <<>>,
            np |-> 0, nv |-> 0, token |-> Null, committed |-> <<>>,
            skip |-> {}, aborted |-> FALSE, browser |-> Null, page |-> Null,
            report |-> NoReport, p |-> 0, v |-> 0,
            result |-> NoResult, tokFailed |-> {}, captured |-> {}]

\* no pure-function call is being looked at
NoCalc == [fn |-> "none"]

\* the server after start-up: nothing registered, no report, nothing running
InitServer ==
    /\ watchSessions = Null
    /\ sessions = <<>>
    /\ browsers = <<>>
    /\ timers = {}
    /\ reportFile = NoReport
    /\ shots = EmptyMap
    /\ runs = [i \in ExecIds |-> IdleRun]
    /\ stopReq = [pc |-> "idle", s |-> Null]
    /\ stopResp = Null
    /\ throwaway = [i \in ExecIds |-> "none"]
    /\ shutdown = [pc |-> "idle", s |-> Null]
    /\ events = 0

Init == InitServer /\ calc = NoCalc

\* the server variables, which a pure-function call leaves alone
server == <<watchSessions, sessions, browsers, timers, reportFile, shots, runs,
            stopReq, stopResp, throwaway, shutdown, events>>

\* the lowest free execution slot
FreeSlot(i) ==
    /\ runs[i].kind = "none"
    /\ \A j \in ExecIds : j < i => runs[j].kind # "none"

BrowserOpen(b) == b # Null /\ browsers[b].state = "open"

\* first persistent runs still in flight (each will create a session object)
PendingFirst == {j \in ExecIds : runs[j].kind = "review" /\ runs[j].first}

\* ------------------------------------------------------ the review pipeline
\* The two nested loops of runReview / runPollCycle, run synchronously from a
\* loop head to the next await ("token", "capture") or to the loop end.
RECURSIVE Scan(_, _, _, _)
Scan(e, phase, p, v) ==
    IF phase = "page"
    THEN IF p > e.np \/ e.aborted THEN [pc |-> "end", p |-> p, v |-> 0]
         ELSE IF HasTokenAuth(e.pages[p]) /\ e.auth THEN [pc |-> "token", p |-> p, v |-> 0]
         ELSE Scan(e, "vp", p, 1)
    ELSE IF v > e.nv \/ e.aborted THEN Scan(e, "page", p + 1, 1)
         ELSE IF resultKey(e.pages[p], v) \in e.skip THEN Scan(e, "vp", p, v + 1)
         ELSE [pc |-> "capture", p |-> p, v |-> v]

\* the id of the one report modelled, and the key under which the finally
\* block of runReview registers session object s: watchSessions.set(report.id, ..)
ReportId == 1
RegistryKey(s) == ReportId

\* the floor of the poll interval, in milliseconds, and the test the finally
\* block makes before it arms a timer: pollInterval && pollInterval >= 60000
\* (0 stands for a body without pollInterval)
MinPollInterval == 60000
PollEnabled(pollInterval) == pollInterval # 0 /\ pollInterval >= MinPollInterval

\* the session object runReview stores in its finally block
NewSession(e) ==
    [browser |-> e.browser, page |-> e.page, auth |-> e.auth, pages |-> e.pages,
     np |-> e.np,
     nv |-> e.nv, pollTimer |-> PollEnabled(e.poll), reviewInProgress |-> FALSE]

\* variant of the finally block as the plan drafted it: the session is stored
\* only when the client is still connected, otherwise the browser is closed
ReviewFinallyUnlessAborted(i, e) ==
    /\ runs' = [runs EXCEPT ![i] = IdleRun]
    /\ IF e.sess # Null
       THEN /\ sessions' = [sessions EXCEPT ![e.sess].reviewInProgress = FALSE]
            /\ UNCHANGED <<watchSessions, browsers, timers>>
       ELSE IF e.browser # Null /\ e.watch /\ ~e.aborted
       THEN /\ sessions' = Append(sessions, NewSession(e))
            /\ timers' = IF PollEnabled(e.poll) THEN timers \cup {Len(sessions) + 1} ELSE timers
            /\ browsers' = [browsers EXCEPT ![e.browser].listener = "first"]
            /\ watchSessions' = Len(sessions) + 1
       ELSE IF e.browser # Null
       THEN /\ browsers' = [browsers EXCEPT ![e.browser].state = "closed"]
            /\ UNCHANGED <<watchSessions, sessions, timers>>
       ELSE UNCHANGED <<watchSessions, sessions, browsers, timers>>

\* finally block of runReview, after the report got its final status
ReviewFinally(i, e) ==
    /\ runs' = [runs EXCEPT ![i] = IdleRun]
    /\ IF e.sess # Null
       THEN /\ sessions' = [sessions EXCEPT ![e.sess].reviewInProgress = FALSE]
            /\ UNCHANGED <<watchSessions, browsers, timers>>
       ELSE IF e.browser # Null /\ e.watch
       THEN /\ sessions' = Append(sessions, NewSession(e))
            /\ timers' = IF PollEnabled(e.poll) THEN timers \cup {Len(sessions) + 1} ELSE timers
            /\ browsers' = [browsers EXCEPT ![e.browser].listener = "first"]
            /\ watchSessions' = Len(sessions) + 1
       ELSE UNCHANGED <<watchSessions, sessions, browsers, timers>>

\* end of the try block (status complete / interrupted) or the outer catch
\* (status error): final save, then the finally block
ReviewEnd(i, e, status, sh) ==
    /\ reportFile' = [e.report EXCEPT !.status = status]
    /\ shots' = sh
    /\ ReviewFinally(i, e)
    /\ UNCHANGED <<stopReq, stopResp, shutdown, calc>>

\* continue the loops of run i from a loop head; disk is the report file as
\* the step leaves it, sh the screenshot files
ReviewGoto(i, e, disk, sh, phase, p, v) ==
    LET pos == Scan(e, phase, p, v)
    IN IF pos.pc = "end"
       THEN ReviewEnd(i, e, IF e.aborted THEN "interrupted" ELSE "complete", sh)
       ELSE /\ runs' = [runs EXCEPT ![i] =
                           [e EXCEPT !.pc = pos.pc, !.p = pos.p, !.v = pos.v,
                                     !.token = IF pos.p = e.p THEN e.token ELSE Null]]
            /\ reportFile' = disk
            /\ shots' = sh
            /\ UNCHANGED <<watchSessions, sessions, browsers, timers, stopReq, stopResp, shutdown, calc>>

\* variant of the request in which a re-trigger without a skipCompleted list
\* also skips the keys that have a stored result
ReviewStartSkipStored(i, withId, wm, poll, auth, pagesIn, nvIn, skipIn) ==
    LET ws == IF withId THEN watchSessions ELSE Null
        pages == IF Len(pagesIn) > 0 THEN pagesIn
                 ELSE IF ws # Null THEN sessions[ws].pages ELSE <<>>
        np == Len(pages)
        report == IF withId THEN [reportFile EXCEPT !.status = "running"] ELSE NewReport
        skip == IF skipIn.given THEN skipIn.keys ELSE DOMAIN report.results
        first == ws = Null /\ wm
        e == [IdleRun EXCEPT !.kind = "review", !.sess = ws, !.watch = (wm \/ ws # Null),
                             !.first = first, !.poll = (IF first THEN poll ELSE 0), !.auth = auth,
                             !.pages = pages,
                             !.np = np, !.nv = (IF nvIn = 0 THEN 1 ELSE nvIn), !.skip = skip, !.report = report,
                             !.browser = IF ws # Null THEN sessions[ws].browser ELSE Null,
                             !.page = IF ws # Null THEN sessions[ws].page ELSE Null,
                             !.pc = IF first THEN "launch" ELSE "warm"]
    IN /\ FreeSlot(i)
       /\ np > 0
       /\ IF withId THEN reportFile.status # "missing" ELSE reportFile.status = "missing"
       /\ first => Len(sessions) + Cardinality(PendingFirst) < MaxSessions
       /\ reportFile' = report
       /\ runs' = [runs EXCEPT ![i] = e]
       /\ sessions' = IF ws # Null
                      THEN [sessions EXCEPT ![ws].reviewInProgress = TRUE]
                      ELSE sessions
       /\ UNCHANGED <<watchSessions, browsers, timers, shots, stopReq, stopResp,
                      throwaway, shutdown, calc>>

\* POST /api/review up to its first await.  withId: the body names the report;
\* wm: watchMode; poll: the pollInterval (0: none); pagesIn = <<>>: no page
\* list; nvIn: the number of viewports listed (0: none, the default list of
\* one viewport applies); skipIn: [given, keys] is the skipCompleted list.
ReviewStart(i, withId, wm, poll, auth, pagesIn, nvIn, skipIn) ==
    LET ws == IF withId THEN watchSessions ELSE Null
        pages == IF Len(pagesIn) > 0 THEN pagesIn
                 ELSE IF ws # Null THEN sessions[ws].pages ELSE <<>>
        np == Len(pages)
        report == IF withId THEN [reportFile EXCEPT !.status = "running"] ELSE NewReport
        skip == IF ws # Null
                THEN (IF skipIn.given THEN skipIn.keys ELSE {})
                ELSE (IF skipIn.given THEN skipIn.keys ELSE DOMAIN report.results)
        first == ws = Null /\ wm
        e == [IdleRun EXCEPT !.kind = "review", !.sess = ws, !.watch = (wm \/ ws # Null),
                             !.first = first, !.poll = (IF first THEN poll ELSE 0), !.auth = auth,
                             !.pages = pages,
                             !.np = np, !.nv = (IF nvIn = 0 THEN 1 ELSE nvIn), !.skip = skip, !.report = report,
                             !.browser = IF ws # Null THEN sessions[ws].browser ELSE Null,
                             !.page = IF ws # Null THEN sessions[ws].page ELSE Null,
                             !.pc = IF first THEN "launch" ELSE "warm"]
    IN /\ FreeSlot(i)
       /\ np > 0
       /\ IF withId THEN reportFile.status # "missing" ELSE reportFile.status = "missing"
       /\ first => Len(sessions) + Cardinality(PendingFirst) < MaxSessions
       /\ reportFile' = report
       /\ runs' = [runs EXCEPT ![i] = e]
       /\ sessions' = IF ws # Null
                      THEN [sessions EXCEPT ![ws].reviewInProgress = TRUE]
                      ELSE sessions
       /\ UNCHANGED <<watchSessions, browsers, timers, shots, stopReq, stopResp,
                      throwaway, shutdown, calc>>

\* variant of the close handler that also closes the browser the run holds
ClientCloseClosing(i) ==
    /\ runs[i].kind = "review"
    /\ ~runs[i].aborted
    /\ runs' = [runs EXCEPT ![i].aborted = TRUE]
    /\ browsers' = IF runs[i].browser # Null
                   THEN [browsers EXCEPT ![runs[i].browser].state = "closed"]
                   ELSE browsers
    /\ UNCHANGED <<watchSessions, sessions, timers, reportFile, shots,
                   stopReq, stopResp, throwaway, shutdown, calc>>

\* req.on('close'): the client of run i disconnects
ClientClose(i) ==
    /\ runs[i].kind = "review"
    /\ ~runs[i].aborted
    /\ runs' = [runs EXCEPT ![i].aborted = TRUE]
    /\ UNCHANGED <<watchSessions, sessions, browsers, timers, reportFile, shots,
                   stopReq, stopResp, throwaway, shutdown, calc>>

\* watch mode, no session yet: launchBrowser + newContext + newPage
ReviewLaunch(i, ok) ==
    /\ runs[i].kind = "review" /\ runs[i].pc = "launch"
    /\ IF ok
       THEN /\ Len(browsers) < MaxBrowsers
            /\ browsers' = Append(browsers, [state |-> "open", listener |-> "none",
                                             h |-> "idle", hs |-> Null, hn |-> Null])
            /\ runs' = [runs EXCEPT ![i].browser = Len(browsers) + 1,
                                    ![i].page = Len(browsers) + 1,
                                    ![i].pc = "warm"]
       ELSE /\ runs' = [runs EXCEPT ![i] = IdleRun]
            /\ UNCHANGED browsers
    /\ UNCHANGED <<watchSessions, sessions, timers, reportFile, shots, stopReq, stopResp,
                   throwaway, shutdown, calc>>

\* healthCheck, prewarm and loadPrompt('review-system'); a failure of any of
\* them is caught by the outer catch
ReviewWarm(i, ok) ==
    /\ runs[i].kind = "review" /\ runs[i].pc = "warm"
    /\ IF ok
       THEN ReviewGoto(i, runs[i], reportFile, shots, "page", 1, 1)
       ELSE ReviewEnd(i, runs[i], "error", shots)
    /\ UNCHANGED throwaway

\* variant of the token step in which a failed token fetch ends the run
ReviewTokenFatal(i, ok, tok) ==
    LET e == runs[i]
        failed == [e.report EXCEPT !.errors =
                      [k \in DOMAIN e.report.errors \cup {resultKey(e.pages[e.p], v) : v \in 1..e.nv} |->
                          IF k \in {resultKey(e.pages[e.p], v) : v \in 1..e.nv}
                          THEN TokenError ELSE e.report.errors[k]]]
    IN /\ e.kind = "review" /\ e.pc = "token"
       /\ IF ok
          THEN ReviewGoto(i, [e EXCEPT !.token = tok], reportFile, shots, "vp", e.p, 1)
          ELSE ReviewEnd(i, [e EXCEPT !.report = failed], "error", shots)
       /\ UNCHANGED throwaway

\* generatePageToken for page p of a run; tok is the token the endpoint returns
ReviewToken(i, ok, tok) ==
    LET e == runs[i]
        failed == [e.report EXCEPT !.errors =
                      [k \in DOMAIN e.report.errors \cup {resultKey(e.pages[e.p], v) : v \in 1..e.nv} |->
                          IF k \in {resultKey(e.pages[e.p], v) : v \in 1..e.nv}
                          THEN TokenError ELSE e.report.errors[k]]]
    IN /\ e.kind = "review" /\ e.pc = "token"
       /\ IF ok
          THEN ReviewGoto(i, [e EXCEPT !.token = tok], reportFile, shots, "vp", e.p, 1)
          ELSE ReviewGoto(i, [e EXCEPT !.report = failed,
                                       !.tokFailed = e.tokFailed \cup {e.p}],
                          failed, shots, "page", e.p + 1, 1)
       /\ UNCHANGED throwaway

\* variant of the per-key catch that gives the whole run up
ReviewKeyErrorFatal(i, e, sh, err) ==
    LET rep == [e.report EXCEPT !.errors = Put(e.report.errors, resultKey(e.pages[e.p], e.v), err)]
    IN ReviewEnd(i, [e EXCEPT !.report = rep], "error", sh)

\* the per-key catch of runReview: record the error, save, next viewport
ReviewKeyError(i, e, sh, err) ==
    LET rep == [e.report EXCEPT !.errors = Put(e.report.errors, resultKey(e.pages[e.p], e.v), err)]
    IN ReviewGoto(i, [e EXCEPT !.report = rep], rep, sh, "vp", e.p, e.v + 1)

\* captureScreenshot of run i.  With a shared page the capture runs on it and
\* succeeds only on a live browser; otherwise a throwaway browser is launched.
ReviewCapture(i, ok, raster) ==
    LET e == runs[i]
        key == resultKey(e.pages[e.p], e.v)
    IN /\ e.kind = "review" /\ e.pc = "capture"
       /\ IF e.page # Null
          THEN IF ok
               THEN /\ BrowserOpen(e.page)
                    /\ runs' = [runs EXCEPT ![i].pc = "analyze",
                                            ![i].captured = e.captured \cup {key}]
                    /\ shots' = Put(shots, key, raster)
                    /\ UNCHANGED <<watchSessions, sessions, browsers, timers,
                                   reportFile, stopReq, stopResp, shutdown, calc>>
               ELSE ReviewKeyError(i, e, shots, CaptureError(e.token))
          ELSE IF ok
               THEN /\ runs' = [runs EXCEPT ![i].pc = "shoot"]
                    /\ UNCHANGED <<watchSessions, sessions, browsers, timers,
                                   reportFile, shots, stopReq, stopResp, shutdown, calc>>
               ELSE ReviewKeyError(i, e, shots, CaptureError(e.token))
       /\ throwaway' = IF e.page = Null /\ ok THEN [throwaway EXCEPT ![i] = "open"]
                       ELSE throwaway

\* standard path of captureScreenshot after the launch: context, page, goto,
\* screenshot; both finally blocks run, the throwaway browser is closed
ReviewShoot(i, ok, raster) ==
    LET e == runs[i]
        key == resultKey(e.pages[e.p], e.v)
    IN /\ e.kind = "review" /\ e.pc = "shoot"
       /\ IF ok
          THEN /\ runs' = [runs EXCEPT ![i].pc = "analyze",
                                       ![i].captured = e.captured \cup {key}]
               /\ shots' = Put(shots, key, raster)
               /\ UNCHANGED <<watchSessions, sessions, browsers, timers,
                              reportFile, stopReq, stopResp, shutdown, calc>>
          ELSE ReviewKeyError(i, e, shots, CaptureError(e.token))
       /\ throwaway' = [throwaway EXCEPT ![i] = "none"]

\* the error res.write raises on the response stream of a client that is gone
WriteError == [message |-> "write after end", token |-> Null]

\* captureScreenshot resolves for a client that has disconnected and the
\* write of the 'captured' progress event throws: the screenshot is on disk,
\* the per-key catch records the error and saves, its own 'page-error' write
\* throws as well, and the outer catch ends the run
ReviewCaptureUndelivered(i, raster) ==
    LET e == runs[i]
        key == resultKey(e.pages[e.p], e.v)
        rep == [e.report EXCEPT !.errors = Put(e.report.errors, key, WriteError)]
    IN /\ e.kind = "review"
       /\ e.aborted
       /\ \/ e.pc = "capture" /\ e.page # Null /\ BrowserOpen(e.page)
          \/ e.pc = "shoot"
       /\ ReviewEnd(i, [e EXCEPT !.report = rep, !.captured = e.captured \cup {key}],
                    "error", Put(shots, key, raster))
       /\ throwaway' = [throwaway EXCEPT ![i] = "none"]

\* store the result, clear the error, recompute the summary, save
ReviewCommit(i, e, result) ==
    LET key == resultKey(e.pages[e.p], e.v)
        results == Put(e.report.results, key, Stored(result))
        rep == [e.report EXCEPT !.results = results,
                                !.errors = Del(e.report.errors, key),
                                !.summary = Recount(results)]
    IN ReviewGoto(i, [e EXCEPT !.report = rep, !.result = NoResult,
                               !.committed = Append(e.committed, key)], rep, shots,
                  "vp", e.p, e.v + 1)

\* analyze() of the captured raster: it throws, or returns the parsed text
ReviewAnalyze(i, throws, text) ==
    LET e == runs[i]
        result == Fallback1(sanitizeResult(parseVlmJson(text)))
    IN /\ e.kind = "review" /\ e.pc = "analyze"
       /\ IF throws
          THEN ReviewKeyError(i, e, shots, AnalysisError)
          ELSE IF result.raw /\ Truthy(result.summary)
          THEN /\ runs' = [runs EXCEPT ![i].pc = "reformat", ![i].result = result]
               /\ UNCHANGED <<watchSessions, sessions, browsers, timers, reportFile,
                              shots, stopReq, stopResp, shutdown, calc>>
          ELSE ReviewCommit(i, e, result)
       /\ UNCHANGED throwaway

\* variant of Fallback 2 in which a reformat call that throws fails the key
ReviewReformatStrict(i, throws, text) ==
    LET e == runs[i]
        parsed == parseVlmJson(text)
    IN /\ e.kind = "review" /\ e.pc = "reformat"
       /\ IF throws THEN ReviewKeyError(i, e, shots, AnalysisError)
          ELSE IF ~parsed.raw THEN ReviewCommit(i, e, sanitizeResult(parsed))
          ELSE ReviewCommit(i, e, e.result)
       /\ UNCHANGED throwaway

\* Fallback 2: the reformat call; any failure keeps the raw result
ReviewReformat(i, throws, text) ==
    LET e == runs[i]
        parsed == parseVlmJson(text)
    IN /\ e.kind = "review" /\ e.pc = "reformat"
       /\ IF ~throws /\ ~parsed.raw
          THEN ReviewCommit(i, e, sanitizeResult(parsed))
          ELSE ReviewCommit(i, e, e.result)
       /\ UNCHANGED throwaway

\* ----------------------------------------------------------- the poll cycle
\* A decoded PNG: width, height and one grey level per pixel.  Two pixels
\* match when their levels differ by at most PixelTolerance (the colour
\* threshold 0.1 handed to pixelmatch).
Levels == {0, 1, 3}
PixelTolerance == 1

\* the screenshot of the page in state r: a single pixel, far apart for
\* different r
Picture(r) == [width |-> 1, height |-> 1, data |-> <<3 * (r - 1)>>]

\* variant of pixelmatch that only counts pixels that got brighter
RECURSIVE pixelmatchBrighter(_, _, _)
pixelmatchBrighter(data1, data2, n) ==
    IF n = 0 THEN 0
    ELSE pixelmatchBrighter(data1, data2, n - 1) +
         (IF data2[n] - data1[n] > PixelTolerance THEN 1 ELSE 0)

\* pixelmatch(img1, img2, null, width, height, {threshold: 0.1}): the number
\* of the first n pixels that do not match
RECURSIVE pixelmatch(_, _, _)
pixelmatch(data1, data2, n) ==
    IF n = 0 THEN 0
    ELSE pixelmatch(data1, data2, n - 1) +
         (IF data1[n] - data2[n] > PixelTolerance \/ data2[n] - data1[n] > PixelTolerance
          THEN 1 ELSE 0)

\* the diff threshold as a fraction; the default is 0.005
DefaultThreshold == [num |-> 5, den |-> 1000]

\* screenshotsChanged(buf1, buf2, threshold) on the decoded images, with a
\* note of whether pixelmatch was called
Diff(img1, img2, threshold) ==
    IF img1.width # img2.width \/ img1.height # img2.height
    THEN [changed |-> TRUE, compared |-> FALSE]
    ELSE LET totalPixels == img1.width * img1.height
             diffCount == pixelmatch(img1.data, img2.data, totalPixels)
         IN [changed |-> diffCount * threshold.den > threshold.num * totalPixels,
             compared |-> TRUE]

screenshotsChanged(img1, img2, threshold) == Diff(img1, img2, threshold).changed

\* variant of the end of a poll cycle that saves without recomputing
PollEndStale(i, e, sh) ==
    /\ reportFile' = e.report
    /\ shots' = sh
    /\ runs' = [runs EXCEPT ![i] = IdleRun]
    /\ sessions' = [sessions EXCEPT ![e.sess].reviewInProgress = FALSE]
    /\ UNCHANGED <<watchSessions, browsers, timers, stopReq, stopResp, shutdown, calc>>

\* end of runPollCycle: recompute the summary, save, release the flag
PollEnd(i, e, sh) ==
    LET rep == [e.report EXCEPT !.summary = Recount(e.report.results)]
    IN /\ reportFile' = rep
       /\ shots' = sh
       /\ runs' = [runs EXCEPT ![i] = IdleRun]
       /\ sessions' = [sessions EXCEPT ![e.sess].reviewInProgress = FALSE]
       /\ UNCHANGED <<watchSessions, browsers, timers, stopReq, stopResp, shutdown, calc>>

PollGoto(i, e, sh, phase, p, v) ==
    LET pos == Scan(e, phase, p, v)
    IN IF pos.pc = "end"
       THEN PollEnd(i, e, sh)
       ELSE /\ runs' = [runs EXCEPT ![i] =
                           [e EXCEPT !.pc = pos.pc, !.p = pos.p, !.v = pos.v,
                                     !.token = IF pos.p = e.p THEN e.token ELSE Null]]
            /\ shots' = sh
            /\ UNCHANGED <<watchSessions, sessions, browsers, timers, reportFile,
                           stopReq, stopResp, shutdown, calc>>

\* the interval timer armed for session t fires: runPollCycle(report.id) up to
\* its first await.  load is the outcome of loadReport and of
\* loadPrompt('review-system'): "ok", "missing" (loadReport returns null) or
\* "throws" (either of them throws, outside the try block).
PollStart(i, t, load) ==
    LET s == watchSessions
        e == [IdleRun EXCEPT !.kind = "poll", !.sess = s, !.report = reportFile,
                             !.browser = sessions[s].browser, !.page = sessions[s].page,
                             !.pages = sessions[s].pages,
                             !.np = sessions[s].np, !.nv = sessions[s].nv,
                             !.auth = sessions[s].auth, !.watch = TRUE]
    IN /\ t \in timers
       /\ FreeSlot(i)
       /\ s # Null
       /\ ~sessions[s].reviewInProgress
       /\ CASE load = "ok" ->
                 /\ sessions' = [sessions EXCEPT ![s].reviewInProgress = TRUE]
                 /\ LET pos == Scan(e, "page", 1, 1)
                    IN runs' = [runs EXCEPT ![i] = [e EXCEPT !.pc = pos.pc, !.p = pos.p,
                                                             !.v = pos.v]]
            [] load = "missing" ->
                 /\ UNCHANGED <<sessions, runs>>
            [] load = "throws" ->
                 /\ sessions' = [sessions EXCEPT ![s].reviewInProgress = TRUE]
                 /\ UNCHANGED runs
       /\ UNCHANGED <<watchSessions, browsers, timers, reportFile, shots, stopReq, stopResp,
                      throwaway, shutdown, calc>>

\* generatePageToken in a poll cycle: a failure skips the page silently
PollToken(i, ok, tok) ==
    LET e == runs[i]
    IN /\ e.kind = "poll" /\ e.pc = "token"
       /\ IF ok THEN PollGoto(i, [e EXCEPT !.token = tok], shots, "vp", e.p, 1)
          ELSE PollGoto(i, e, shots, "page", e.p + 1, 1)
       /\ UNCHANGED throwaway

\* the per-key catch of runPollCycle
PollKeyError(i, e, sh, err) ==
    LET rep == [e.report EXCEPT !.errors =
                   Put(e.report.errors, resultKey(e.pages[e.p], e.v), PollError(err))]
    IN PollGoto(i, [e EXCEPT !.report = rep], sh, "vp", e.p, e.v + 1)

\* variant of the re-capture that analyses whatever the diff says
PollCaptureAlways(i, ok, raster) ==
    LET e == runs[i]
        key == resultKey(e.pages[e.p], e.v)
    IN /\ e.kind = "poll" /\ e.pc = "capture"
       /\ IF ok
          THEN /\ BrowserOpen(e.page)
               /\ runs' = [runs EXCEPT ![i].pc = "analyze"]
               /\ shots' = Put(shots, key, raster)
               /\ UNCHANGED <<watchSessions, sessions, browsers, timers,
                              reportFile, stopReq, stopResp, shutdown, calc>>
          ELSE PollKeyError(i, e, shots, CaptureError(e.token))
       /\ UNCHANGED throwaway

\* re-capture on the session's page and diff against the stored screenshot
PollCapture(i, ok, raster) ==
    LET e == runs[i]
        key == resultKey(e.pages[e.p], e.v)
        changed == IF key \in DOMAIN shots
                   THEN screenshotsChanged(Picture(shots[key]), Picture(raster),
                                           DefaultThreshold)
                   ELSE TRUE
    IN /\ e.kind = "poll" /\ e.pc = "capture"
       /\ IF ok
          THEN /\ BrowserOpen(e.page)
               /\ IF ~changed
                  THEN PollGoto(i, e, shots, "vp", e.p, e.v + 1)
                  ELSE /\ runs' = [runs EXCEPT ![i].pc = "analyze"]
                       /\ shots' = Put(shots, key, raster)
                       /\ UNCHANGED <<watchSessions, sessions, browsers, timers,
                                      reportFile, stopReq, stopResp, shutdown, calc>>
          ELSE PollKeyError(i, e, shots, CaptureError(e.token))
       /\ UNCHANGED throwaway

\* re-analysis of a changed key: store the result, clear the error
PollAnalyze(i, throws, text) ==
    LET e == runs[i]
        key == resultKey(e.pages[e.p], e.v)
        result == Fallback1(sanitizeResult(parseVlmJson(text)))
        rep == [e.report EXCEPT !.results = Put(e.report.results, key, Stored(result)),
                                !.errors = Del(e.report.errors, key)]
    IN /\ e.kind = "poll" /\ e.pc = "analyze"
       /\ IF throws THEN PollKeyError(i, e, shots, AnalysisError)
          ELSE PollGoto(i, [e EXCEPT !.report = rep], shots, "vp", e.p, e.v + 1)
       /\ UNCHANGED throwaway

\* ------------------------------------------------- the disconnect observers
\* catch block of the relaunch and body of the second-crash observer: cancel
\* the timer of the session object at hand, delete the registry entry
Forget(s, tm) == IF sessions[s].pollTimer THEN tm \ {s} ELSE tm

\* variant of the observers in which the second one relaunches as well
DisconnectedAgain(b, br, tm) ==
    IF br[b].listener \in {"first", "second"} /\ watchSessions # Null
    THEN [browsers |-> [br EXCEPT ![b].h = "launching", ![b].hs = watchSessions],
          timers |-> tm, watchSessions |-> watchSessions]
    ELSE [browsers |-> br, timers |-> tm, watchSessions |-> watchSessions]

\* 'disconnected' of browser b, synchronous part of its observer.  br and tm
\* are the browsers and timers at the moment of the event.
Disconnected(b, br, tm) ==
    IF br[b].listener = "first" /\ watchSessions # Null
    THEN [browsers |-> [br EXCEPT ![b].h = "launching", ![b].hs = watchSessions],
          timers |-> tm, watchSessions |-> watchSessions]
    ELSE IF br[b].listener = "second" /\ watchSessions # Null
    THEN [browsers |-> br, timers |-> Forget(watchSessions, tm), watchSessions |-> Null]
    ELSE [browsers |-> br, timers |-> tm, watchSessions |-> watchSessions]

\* the process of browser b dies
Crash(b) ==
    /\ b \in 1..Len(browsers)
    /\ browsers[b].state = "open"
    /\ LET ev == Disconnected(b, [browsers EXCEPT ![b].state = "dead"], timers)
       IN /\ browsers' = ev.browsers
          /\ timers' = ev.timers
          /\ watchSessions' = ev.watchSessions
    /\ UNCHANGED <<sessions, reportFile, shots, runs, stopReq, stopResp, throwaway, shutdown, calc>>

\* catch block of the first observer
RelaunchFailed(b) ==
    /\ browsers' = [browsers EXCEPT ![b].h = "done"]
    /\ timers' = Forget(browsers[b].hs, timers)
    /\ watchSessions' = Null
    /\ UNCHANGED sessions

\* first observer: await launchBrowser
RelaunchLaunch(b, ok) ==
    /\ b \in 1..Len(browsers)
    /\ browsers[b].h = "launching"
    /\ IF ok
       THEN /\ Len(browsers) < MaxBrowsers
            /\ browsers' = Append([browsers EXCEPT ![b].h = "context",
                                                   ![b].hn = Len(browsers) + 1],
                                  [state |-> "open", listener |-> "none",
                                   h |-> "idle", hs |-> Null, hn |-> Null])
            /\ UNCHANGED <<timers, watchSessions, sessions>>
       ELSE RelaunchFailed(b)
    /\ UNCHANGED <<reportFile, shots, runs, stopReq, stopResp, throwaway, shutdown, calc>>

\* first observer: await newBrowser.newContext, then s.browser = newBrowser
RelaunchContext(b, ok) ==
    /\ b \in 1..Len(browsers)
    /\ browsers[b].h = "context"
    /\ IF ok
       THEN /\ BrowserOpen(browsers[b].hn)
            /\ sessions' = [sessions EXCEPT ![browsers[b].hs].browser = browsers[b].hn]
            /\ browsers' = [browsers EXCEPT ![b].h = "page"]
            /\ UNCHANGED <<timers, watchSessions>>
       ELSE RelaunchFailed(b)
    /\ UNCHANGED <<reportFile, shots, runs, stopReq, stopResp, throwaway, shutdown, calc>>

\* variant of the last relaunch step that leaves the new browser unobserved
RelaunchPageUnobserved(b, ok) ==
    /\ b \in 1..Len(browsers)
    /\ browsers[b].h = "page"
    /\ IF ok
       THEN /\ BrowserOpen(browsers[b].hn)
            /\ sessions' = [sessions EXCEPT ![browsers[b].hs].page = browsers[b].hn]
            /\ browsers' = [browsers EXCEPT ![b].h = "done"]
            /\ UNCHANGED <<timers, watchSessions>>
       ELSE RelaunchFailed(b)
    /\ UNCHANGED <<reportFile, shots, runs, stopReq, stopResp, throwaway, shutdown, calc>>

\* first observer: s.page = await ctx.newPage(), then observe the new browser
RelaunchPage(b, ok) ==
    /\ b \in 1..Len(browsers)
    /\ browsers[b].h = "page"
    /\ IF ok
       THEN /\ BrowserOpen(browsers[b].hn)
            /\ sessions' = [sessions EXCEPT ![browsers[b].hs].page = browsers[b].hn]
            /\ browsers' = [browsers EXCEPT ![b].h = "done",
                                            ![browsers[b].hn].listener = "second"]
            /\ UNCHANGED <<timers, watchSessions>>
       ELSE RelaunchFailed(b)
    /\ UNCHANGED <<reportFile, shots, runs, stopReq, stopResp, throwaway, shutdown, calc>>

\* ------------------------------------------------------------ the stop route
\* variant of the stop route that leaves the poll timer armed
StopBeginKeepTimer ==
    /\ stopReq.pc = "idle"
    /\ IF watchSessions = Null
       THEN /\ stopResp' = NotFound
            /\ UNCHANGED <<watchSessions, sessions, browsers, timers, stopReq>>
       ELSE LET s == watchSessions
                b == sessions[s].browser
                ev == IF browsers[b].state = "open"
                      THEN Disconnected(b, [browsers EXCEPT ![b].state = "closed"], timers)
                      ELSE [browsers |-> browsers, timers |-> timers,
                            watchSessions |-> watchSessions]
            IN /\ browsers' = ev.browsers
               /\ timers' = ev.timers
               /\ watchSessions' = ev.watchSessions
               /\ stopReq' = [pc |-> "closing", s |-> s]
               /\ UNCHANGED <<sessions, stopResp>>
    /\ UNCHANGED <<reportFile, shots, runs, throwaway, shutdown, calc>>

\* POST /api/watch/:reportId/stop up to `await session.browser.close()'
StopBegin ==
    /\ stopReq.pc = "idle"
    /\ IF watchSessions = Null
       THEN /\ stopResp' = NotFound
            /\ UNCHANGED <<watchSessions, sessions, browsers, timers, stopReq>>
       ELSE LET s == watchSessions
                b == sessions[s].browser
                tm == Forget(s, timers)
                ev == IF browsers[b].state = "open"
                      THEN Disconnected(b, [browsers EXCEPT ![b].state = "closed"], tm)
                      ELSE [browsers |-> browsers, timers |-> tm,
                            watchSessions |-> watchSessions]
            IN /\ browsers' = ev.browsers
               /\ timers' = ev.timers
               /\ watchSessions' = ev.watchSessions
               /\ stopReq' = [pc |-> "closing", s |-> s]
               /\ UNCHANGED <<sessions, stopResp>>
    /\ UNCHANGED <<reportFile, shots, runs, throwaway, shutdown, calc>>

\* the close has settled: delete the registry entry, answer ok
StopFinish ==
    /\ stopReq.pc = "closing"
    /\ watchSessions' = Null
    /\ stopResp' = StatusOk
    /\ stopReq' = [pc |-> "idle", s |-> Null]
    /\ UNCHANGED <<sessions, browsers, timers, reportFile, shots, runs, throwaway,
                   shutdown, calc>>

\* ------------------------------------------------------------ the shutdown
\* SIGINT / SIGTERM: shutdown() up to `await session.browser.close()' of the
\* registered session (its timer is cancelled, the close fires the observer
\* of a live browser), or to process.exit(0) when the registry is empty
ShutdownBegin ==
    /\ shutdown.pc = "idle"
    /\ IF watchSessions = Null
       THEN /\ shutdown' = [pc |-> "exited", s |-> Null]
            /\ UNCHANGED <<watchSessions, browsers, timers>>
       ELSE LET s == watchSessions
                b == sessions[s].browser
                tm == Forget(s, timers)
                ev == IF browsers[b].state = "open"
                      THEN Disconnected(b, [browsers EXCEPT ![b].state = "closed"], tm)
                      ELSE [browsers |-> browsers, timers |-> tm,
                            watchSessions |-> watchSessions]
            IN /\ browsers' = ev.browsers
               /\ timers' = ev.timers
               /\ watchSessions' = ev.watchSessions
               /\ shutdown' = [pc |-> "closing", s |-> s]
    /\ UNCHANGED <<sessions, reportFile, shots, runs, stopReq, stopResp, throwaway, calc>>

\* the close has settled: delete the registry entry; the loop over the
\* registry is over, process.exit(0)
ShutdownFinish ==
    /\ shutdown.pc = "closing"
    /\ watchSessions' = Null
    /\ shutdown' = [pc |-> "exited", s |-> shutdown.s]
    /\ UNCHANGED <<sessions, browsers, timers, reportFile, shots, runs, stopReq, stopResp,
                   throwaway, calc>>

\* GET /api/watch: the listed sessions
ListActive == IF watchSessions = Null THEN {} ELSE {watchSessions}

\* ----------------------------------------------------------- specifications
\* The environment: an await settles as expected (success, the page as it
\* was: raster 1, the structured TextA) or deviates, and every deviation
\* spends one of the MaxEvents events.  A browser dies at most once, so the
\* crashes are bounded by the browsers launched.
Ev(n) == events + n <= MaxEvents /\ events' = events + n
Cost(ok) == IF ok THEN 0 ELSE 1
\* a capture on the page of a dead browser, and a newContext / newPage on a
\* dead relaunched browser, can only fail: that failure is no event of its own
CaptureCost(i, ok) ==
    IF ok \/ (runs[i].page # Null /\ ~BrowserOpen(runs[i].page)) THEN 0 ELSE 1
RelaunchCost(b, ok) == IF ok \/ ~BrowserOpen(browsers[b].hn) THEN 0 ELSE 1
Rasters == {1, 2}
Tokens == {1, 2}
Texts == {TextA, TextB, TextGarbage}
NoSkip == [given |-> FALSE, keys |-> {}]

\* Session life cycle: one client at a time, crashes, relaunches and stops,
\* over a one-page, one-viewport list whose content does not change.
Next ==
    \/ \E withId, wm \in BOOLEAN, poll \in {0, MinPollInterval}, npIn \in {0, 1} :
          ReviewStart(1, withId, wm, poll, FALSE, PageList(npIn), 1, NoSkip) /\ Ev(0)
    \/ ClientClose(1) /\ Ev(1)
    \/ \E ok \in BOOLEAN : ReviewLaunch(1, ok) /\ Ev(Cost(ok))
    \/ \E ok \in BOOLEAN : ReviewWarm(1, ok) /\ Ev(Cost(ok))
    \/ \E ok \in BOOLEAN : ReviewCapture(1, ok, 1) /\ Ev(CaptureCost(1, ok))
    \/ \E ok \in BOOLEAN : ReviewShoot(1, ok, 1) /\ Ev(Cost(ok))
    \/ \E th \in BOOLEAN : ReviewAnalyze(1, th, TextA) /\ Ev(Cost(~th))
    \/ \E t \in SessionIds, load \in {"ok", "missing", "throws"} :
          PollStart(1, t, load) /\ Ev(Cost(load = "ok"))
    \/ \E ok \in BOOLEAN : PollCapture(1, ok, 1) /\ Ev(CaptureCost(1, ok))
    \/ \E th \in BOOLEAN : PollAnalyze(1, th, TextA) /\ Ev(Cost(~th))
    \/ \E b \in BrowserIds : Crash(b) /\ Ev(0)
    \/ \E b \in BrowserIds, ok \in BOOLEAN : RelaunchLaunch(b, ok) /\ Ev(Cost(ok))
    \/ \E b \in BrowserIds, ok \in BOOLEAN : RelaunchContext(b, ok) /\ Ev(RelaunchCost(b, ok))
    \/ \E b \in BrowserIds, ok \in BOOLEAN : RelaunchPage(b, ok) /\ Ev(RelaunchCost(b, ok))
    \/ StopBegin /\ Ev(0)
    \/ StopFinish /\ Ev(0)

Spec == Init /\ [][Next]_vars

\* Concurrent executions on one session: requests and timer ticks overlap,
\* over a one-page, one-viewport list; no crash and no stop.
NextConc ==
    \/ \E i \in ExecIds, withId, wm \in BOOLEAN, poll \in {0, MinPollInterval} :
          ReviewStart(i, withId, wm, poll, FALSE, PageList(1), 1, NoSkip) /\ Ev(0)
    \/ \E i \in ExecIds : ClientClose(i) /\ Ev(1)
    \/ \E i \in ExecIds, ok \in BOOLEAN : ReviewLaunch(i, ok) /\ Ev(Cost(ok))
    \/ \E i \in ExecIds, ok \in BOOLEAN : ReviewWarm(i, ok) /\ Ev(Cost(ok))
    \/ \E i \in ExecIds, ok \in BOOLEAN : ReviewCapture(i, ok, 1) /\ Ev(Cost(ok))
    \/ \E i \in ExecIds, ok \in BOOLEAN : ReviewShoot(i, ok, 1) /\ Ev(Cost(ok))
    \/ \E i \in ExecIds, th \in BOOLEAN : ReviewAnalyze(i, th, TextA) /\ Ev(Cost(~th))
    \/ \E i \in ExecIds, t \in SessionIds, load \in {"ok", "missing", "throws"} :
          PollStart(i, t, load) /\ Ev(Cost(load = "ok"))
    \/ \E i \in ExecIds, ok \in BOOLEAN : PollCapture(i, ok, 1) /\ Ev(Cost(ok))
    \/ \E i \in ExecIds, th \in BOOLEAN : PollAnalyze(i, th, TextA) /\ Ev(Cost(~th))

SpecConc == Init /\ [][NextConc]_vars

\* The pipeline over the full page x viewport matrix: one client at a time,
\* token auth, changing rasters and texts, no crash and no stop.
NextPipe ==
    \/ \E withId, wm, auth \in BOOLEAN, npIn \in {0, NumPages}, nvIn \in {1, NumViewports} :
          ReviewStart(1, withId, wm, IF wm THEN MinPollInterval ELSE 0, auth,
                      PageList(npIn), nvIn, NoSkip) /\ Ev(0)
    \/ ClientClose(1) /\ Ev(1)
    \/ \E ok \in BOOLEAN : ReviewLaunch(1, ok) /\ Ev(Cost(ok))
    \/ \E ok \in BOOLEAN : ReviewWarm(1, ok) /\ Ev(Cost(ok))
    \/ \E ok \in BOOLEAN, tok \in Tokens : ReviewToken(1, ok, tok) /\ Ev(Cost(ok))
    \/ \E ok \in BOOLEAN, r \in Rasters : ReviewCapture(1, ok, r) /\ Ev(Cost(ok /\ r = 1))
    \/ \E ok \in BOOLEAN, r \in Rasters : ReviewShoot(1, ok, r) /\ Ev(Cost(ok /\ r = 1))
    \/ \E th \in BOOLEAN, t \in Texts : ReviewAnalyze(1, th, t) /\ Ev(Cost(~th /\ t = TextA))
    \/ \E th \in BOOLEAN, t \in Texts : ReviewReformat(1, th, t) /\ Ev(Cost(~th /\ t = TextA))
    \/ \E t \in SessionIds : PollStart(1, t, "ok") /\ Ev(0)
    \/ \E ok \in BOOLEAN, tok \in Tokens : PollToken(1, ok, tok) /\ Ev(Cost(ok))
    \/ \E ok \in BOOLEAN, r \in Rasters : PollCapture(1, ok, r) /\ Ev(Cost(ok /\ r = 1))
    \/ \E th \in BOOLEAN, t \in Texts : PollAnalyze(1, th, t) /\ Ev(Cost(~th /\ t = TextA))

SpecPipe == Init /\ [][NextPipe]_vars

\* The session life cycle until the process is told to terminate: nothing
\* runs after process.exit.
NextShutdown ==
    \/ shutdown.pc # "exited" /\ Next
    \/ ShutdownBegin /\ Ev(0)
    \/ ShutdownFinish /\ Ev(0)

SpecShutdown == Init /\ [][NextShutdown]_vars

\* page lists as a request body can carry them: any names in any order, a
\* name possibly more than once (the lists are used as received)
PageOrders == [1..NumPages -> 1..NumPages]

\* a pollInterval under the floor
BelowFloor == MinPollInterval \div 2

\* One client at a time reviewing an arbitrary page list, fresh or resumed,
\* one-shot or persistent, with or without page list, viewport list and
\* (too short) poll interval, free to disconnect at any moment of its run;
\* no token auth, no crash and no stop.
NextClient ==
    \/ \E withId, wm \in BOOLEAN, poll \in {0, BelowFloor},
          pagesIn \in PageOrders \cup {<<>>}, nvIn \in {0, 1, NumViewports} :
          ReviewStart(1, withId, wm, poll, FALSE, pagesIn, nvIn, NoSkip) /\ Ev(0)
    \/ ClientClose(1) /\ Ev(0)
    \/ \E ok \in BOOLEAN : ReviewLaunch(1, ok) /\ Ev(Cost(ok))
    \/ \E ok \in BOOLEAN : ReviewWarm(1, ok) /\ Ev(Cost(ok))
    \/ \E ok \in BOOLEAN, r \in Rasters : ReviewCapture(1, ok, r) /\ Ev(Cost(ok /\ r = 1))
    \/ \E ok \in BOOLEAN, r \in Rasters : ReviewShoot(1, ok, r) /\ Ev(Cost(ok /\ r = 1))
    \/ \E th \in BOOLEAN, t \in Texts : ReviewAnalyze(1, th, t) /\ Ev(Cost(~th /\ t = TextA))
    \/ \E th \in BOOLEAN, t \in Texts : ReviewReformat(1, th, t) /\ Ev(Cost(~th /\ t = TextA))

SpecClient == Init /\ [][NextClient]_vars

\* The same client, on a platform where a write to the response stream of a
\* disconnected client throws.
NextNotify ==
    \/ NextClient
    \/ \E r \in Rasters : ReviewCaptureUndelivered(1, r) /\ Ev(1)

SpecNotify == Init /\ [][NextNotify]_vars

\* Polling a page that changes: one persistent session with a timer, every
\* capture succeeds and may show a new raster, an analysis may fail or return
\* another text.
NextPoll ==
    \/ \E withId \in BOOLEAN, npIn \in {1, NumPages}, nvIn \in {1, NumViewports} :
          ReviewStart(1, withId, TRUE, MinPollInterval, FALSE, PageList(npIn), nvIn, NoSkip)
             /\ Ev(0)
    \/ ReviewLaunch(1, TRUE) /\ Ev(0)
    \/ ReviewWarm(1, TRUE) /\ Ev(0)
    \/ \E r \in Rasters : ReviewCapture(1, TRUE, r) /\ Ev(0)
    \/ \E th \in BOOLEAN, t \in Texts : ReviewAnalyze(1, th, t) /\ Ev(Cost(~th /\ t = TextA))
    \/ \E th \in BOOLEAN, t \in Texts : ReviewReformat(1, th, t) /\ Ev(Cost(~th /\ t = TextA))
    \/ \E t \in SessionIds : PollStart(1, t, "ok") /\ Ev(0)
    \/ \E r \in Rasters : PollCapture(1, TRUE, r) /\ Ev(0)
    \/ \E th \in BOOLEAN, t \in Texts : PollAnalyze(1, th, t) /\ Ev(Cost(~th /\ t = TextA))

SpecPoll == Init /\ [][NextPoll]_vars

\* One-shot reviews of one page, fresh or resumed, in which every capture
\* succeeds and the analysis service answers anything at every call.
NextFallback ==
    \/ \E withId \in BOOLEAN, nvIn \in {1, NumViewports} :
          ReviewStart(1, withId, FALSE, 0, FALSE, PageList(1), nvIn, NoSkip) /\ Ev(0)
    \/ ReviewWarm(1, TRUE) /\ Ev(0)
    \/ ReviewCapture(1, TRUE, 1) /\ Ev(0)
    \/ ReviewShoot(1, TRUE, 1) /\ Ev(0)
    \/ \E th \in BOOLEAN, t \in Texts : ReviewAnalyze(1, th, t) /\ Ev(0)
    \/ \E th \in BOOLEAN, t \in Texts : ReviewReformat(1, th, t) /\ Ev(0)

SpecFallback == Init /\ [][NextFallback]_vars

\* Concurrent executions on one report whose browsers may die: the
\* requests and ticks of SpecConc, crashes and relaunches.
NextStale ==
    \/ NextConc
    \/ \E b \in BrowserIds : Crash(b) /\ Ev(0)
    \/ \E b \in BrowserIds, ok \in BOOLEAN : RelaunchLaunch(b, ok) /\ Ev(Cost(ok))
    \/ \E b \in BrowserIds, ok \in BOOLEAN : RelaunchContext(b, ok) /\ Ev(RelaunchCost(b, ok))
    \/ \E b \in BrowserIds, ok \in BOOLEAN : RelaunchPage(b, ok) /\ Ev(RelaunchCost(b, ok))

SpecStale == Init /\ [][NextStale]_vars

\* ------------------------------------------------------------ discovery
\* A <loc> entry of the sitemap: a URL of another origin or of a non-page
\* resource, or a same-origin page URL, which is a path and a fragment.
OffOrigin == [path |-> Null, hash |-> ""]
LocValues == {OffOrigin} \cup [path : 1..2, hash : {"", "#top"}]

\* normalizePath(urlString, baseOrigin): Null for what is not a page of the
\* origin, else the path without the fragment
normalizePath(loc) == IF loc = OffOrigin THEN Null ELSE loc.path

\* Array.prototype.slice(0, end) of a list
Slice(list, end) ==
    LET stop == IF end < 0 THEN (IF Len(list) + end < 0 THEN 0 ELSE Len(list) + end)
                ELSE Min(end, Len(list))
    IN SubSeq(list, 1, stop)

\* trySitemap(baseUrl): the paths of the <loc> entries in document order,
\* each once; the empty list stands for `no sitemap' (null)
RECURSIVE trySitemap(_, _)
trySitemap(locs, paths) ==
    IF locs = <<>> THEN paths
    ELSE LET path == normalizePath(Head(locs))
         IN IF path # Null /\ \A k \in 1..Len(paths) : paths[k] # path
            THEN trySitemap(Tail(locs), Append(paths, path))
            ELSE trySitemap(Tail(locs), paths)

\* discoverPages({baseUrl, maxPages}) for a site whose sitemap lists locs;
\* crawled: crawlLinks was called (its result is not modelled)
discoverPages(locs, maxPages) ==
    LET sitemapPaths == trySitemap(locs, <<>>)
    IN IF Len(sitemapPaths) > 0
       THEN [pages |-> Slice(sitemapPaths, maxPages),
             source |-> "sitemap",
             totalLinksFound |-> Len(sitemapPaths),
             pagesSkipped |-> IF Len(sitemapPaths) - maxPages > 0
                              THEN Len(sitemapPaths) - maxPages ELSE 0,
             crawled |-> FALSE]
       ELSE [pages |-> <<>>, source |-> "crawl", totalLinksFound |-> 0,
             pagesSkipped |-> 0, crawled |-> TRUE]

\* sitemaps of up to MaxLocs entries
RECURSIVE LocLists(_)
LocLists(n) ==
    IF n = 0 THEN {<<>>}
    ELSE LocLists(n - 1) \cup
         {Append(l, x) : l \in {m \in LocLists(n - 1) : Len(m) = n - 1}, x \in LocValues}

\* the maxPages values a request body can carry (the route passes the value
\* on as received), among them a negative one
MaxPagesValues == (0 - 1)..MaxLocs

NoOutput == [source |-> "none"]

\* POST /api/discover is about to call discoverPages
InitDiscover ==
    /\ InitServer
    /\ \E locs \in LocLists(MaxLocs), maxPages \in MaxPagesValues :
          calc = [fn |-> "discoverPages", locs |-> locs, maxPages |-> maxPages,
                  out |-> NoOutput]

\* the call returns
Discover ==
    /\ calc.fn = "discoverPages"
    /\ calc.out = NoOutput
    /\ calc' = [calc EXCEPT !.out = discoverPages(calc.locs, calc.maxPages)]
    /\ UNCHANGED server

NextDiscover == Discover

SpecDiscover == InitDiscover /\ [][NextDiscover]_vars

\* ---------------------------------------------------------------- crawling
\* A site without sitemap: three pages, the crawl starts at path 1.  A link
\* leads off the origin or to one of the pages, possibly with a fragment.
CrawlPaths == 1..3
StartPath == 1
HrefValues == {OffOrigin} \cup [path : CrawlPaths, hash : {""}]
                  \cup {[path |-> 3, hash |-> "#top"]}

\* the links of a site in document order, each with the page that carries it
RECURSIVE LinkLists(_)
LinkLists(n) ==
    IF n = 0 THEN {<<>>}
    ELSE LinkLists(n - 1) \cup
         {Append(l, x) : l \in {m \in LinkLists(n - 1) : Len(m) = n - 1},
                         x \in [from : CrawlPaths, href : HrefValues]}

\* the links page `path' carries
RECURSIVE LinksOf(_, _)
LinksOf(site, path) ==
    IF site = <<>> THEN <<>>
    ELSE IF Head(site).from = path THEN <<Head(site).href>> \o LinksOf(Tail(site), path)
         ELSE LinksOf(Tail(site), path)

\* the maxPages values of a crawl: from a negative one to more than the site has
CrawlMaxPages == (0 - 1)..(Cardinality(CrawlPaths) + 1)

\* the normalized links of a page that are not visited yet, in page order
\* (a path linked twice is listed twice)
RECURSIVE NewPaths(_, _)
NewPaths(links, visited) ==
    IF links = <<>> THEN <<>>
    ELSE LET normalized == normalizePath(Head(links))
         IN IF normalized # Null /\ normalized \notin visited
            THEN <<normalized>> \o NewPaths(Tail(links), visited)
            ELSE NewPaths(Tail(links), visited)

\* [...new Set(list)]: first occurrences, in order
RECURSIVE Unique(_)
Unique(list) ==
    IF list = <<>> THEN <<>>
    ELSE LET init == Unique(SubSeq(list, 1, Len(list) - 1))
             last == list[Len(list)]
         IN IF \E k \in 1..Len(init) : init[k] = last THEN init ELSE Append(init, last)

\* crawlLinks({baseUrl, maxPages}) is about to enter its loop
InitCrawl ==
    /\ InitServer
    /\ \E site \in LinkLists(MaxLinks), maxPages \in CrawlMaxPages :
          calc = [fn |-> "crawlLinks", site |-> site, maxPages |-> maxPages,
                  queue |-> <<StartPath>>, visited |-> {}, pages |-> <<>>,
                  loads |-> <<>>, totalLinksFound |-> 0, pagesSkipped |-> 0,
                  pc |-> "loop"]

\* variant of the loop body that loads a path whether or not it was visited
CrawlIterationRevisit(ok, aborted) ==
    /\ calc.fn = "crawlLinks"
    /\ calc.pc = "loop"
    /\ IF ~(Len(calc.queue) > 0 /\ Len(calc.pages) < calc.maxPages) \/ aborted
       THEN calc' = [calc EXCEPT !.pc = "done", !.pagesSkipped = Len(calc.queue)]
       ELSE LET path == Head(calc.queue)
                visited == calc.visited \cup {path}
                newPaths == NewPaths(LinksOf(calc.site, path), visited)
            IN IF ok
               THEN calc' = [calc EXCEPT !.queue = Tail(calc.queue) \o Unique(newPaths),
                                         !.visited = visited,
                                         !.loads = Append(calc.loads, path),
                                         !.totalLinksFound = calc.totalLinksFound + Len(newPaths),
                                         !.pages = Append(calc.pages, path)]
               ELSE calc' = [calc EXCEPT !.queue = Tail(calc.queue),
                                         !.visited = visited,
                                         !.loads = Append(calc.loads, path),
                                         !.pages = Append(calc.pages, path)]
    /\ UNCHANGED server

\* one evaluation of the loop condition and, if it holds, one pass through
\* the loop body.  ok: page.goto and extractLinks succeed; aborted: the
\* signal is aborted when the body tests it.
CrawlIteration(ok, aborted) ==
    /\ calc.fn = "crawlLinks"
    /\ calc.pc = "loop"
    /\ IF ~(Len(calc.queue) > 0 /\ Len(calc.pages) < calc.maxPages) \/ aborted
       THEN calc' = [calc EXCEPT !.pc = "done", !.pagesSkipped = Len(calc.queue)]
       ELSE LET path == Head(calc.queue)
                visited == calc.visited \cup {path}
                newPaths == NewPaths(LinksOf(calc.site, path), visited)
            IN IF path \in calc.visited
               THEN calc' = [calc EXCEPT !.queue = Tail(calc.queue)]
               ELSE IF ok
               THEN calc' = [calc EXCEPT !.queue = Tail(calc.queue) \o Unique(newPaths),
                                         !.visited = visited,
                                         !.loads = Append(calc.loads, path),
                                         !.totalLinksFound = calc.totalLinksFound + Len(newPaths),
                                         !.pages = Append(calc.pages, path)]
               ELSE calc' = [calc EXCEPT !.queue = Tail(calc.queue),
                                         !.visited = visited,
                                         !.loads = Append(calc.loads, path),
                                         !.pages = Append(calc.pages, path)]
    /\ UNCHANGED server

NextCrawl == \E ok, aborted \in BOOLEAN : CrawlIteration(ok, aborted)

SpecCrawl == InitCrawl /\ [][NextCrawl]_vars

\* ------------------------------------------------------------ image diff
\* decoded rasters one pixel high and up to MaxWidth pixels wide
RECURSIVE Rows(_)
Rows(w) ==
    IF w = 0 THEN {<<>>}
    ELSE {Append(d, l) : d \in Rows(w - 1), l \in Levels}

Images == UNION {{[width |-> w, height |-> 1, data |-> d] : d \in Rows(w)} :
                 w \in 1..MaxWidth}

Thresholds == {[num |-> 0, den |-> 1], DefaultThreshold, [num |-> 1, den |-> 2]}

\* two rasters and a threshold are about to be compared
InitDiff ==
    /\ InitServer
    /\ \E a \in Images, b \in Images, th \in Thresholds :
          calc = [fn |-> "screenshotsChanged", a |-> a, b |-> b, threshold |-> th,
                  out |-> NoOutput]

\* the three calls return: A with itself, A with B, B with A
Compare ==
    /\ calc.fn = "screenshotsChanged"
    /\ calc.out = NoOutput
    /\ calc' = [calc EXCEPT !.out = [aa |-> Diff(calc.a, calc.a, calc.threshold),
                                     ab |-> Diff(calc.a, calc.b, calc.threshold),
                                     ba |-> Diff(calc.b, calc.a, calc.threshold)]]
    /\ UNCHANGED server

NextDiff == Compare

SpecDiff == InitDiff /\ [][NextDiff]_vars

\* ------------------------------------------------------------ sanitization
\* issues as the analysis service may return them: the three severities in a
\* known category, an unknown severity, an unknown category, no description
IssueValues ==
    {[severity |-> sev, category |-> "layout", description |-> TRUE] : sev \in SEVERITIES}
    \cup {[severity |-> "blocker", category |-> "layout", description |-> TRUE],
          [severity |-> "critical", category |-> "branding", description |-> TRUE],
          [severity |-> "warning", category |-> "spacing", description |-> FALSE]}

RECURSIVE IssuePatterns(_)
IssuePatterns(n) ==
    IF n = 0 THEN {<<>>}
    ELSE IssuePatterns(n - 1) \cup
         {Append(u, x) : u \in {w \in IssuePatterns(n - 1) : Len(w) = n - 1}, x \in IssueValues}

RECURSIVE Repeat(_, _)
Repeat(u, k) == IF k = 0 THEN <<>> ELSE u \o Repeat(u, k - 1)

\* issue lists of up to MaxPattern * MaxRepeat entries
IssueLists == {Repeat(u, k) : u \in IssuePatterns(MaxPattern), k \in 1..MaxRepeat}

\* a parsed response is about to be sanitized
InitSanitize ==
    /\ InitServer
    /\ \E list \in IssueLists :
          calc = [fn |-> "sanitizeResult",
                  data |-> [issues |-> list, summary |-> Prose, raw |-> FALSE],
                  out |-> NoOutput]

Sanitize ==
    /\ calc.fn = "sanitizeResult"
    /\ calc.out = NoOutput
    /\ calc' = [calc EXCEPT !.out = sanitizeResult(calc.data)]
    /\ UNCHANGED server

NextSanitize == Sanitize

SpecSanitize == InitSanitize /\ [][NextSanitize]_vars

\* =================================================================== claims

\* C1, as the specification states it: for every session at most one
\* pipeline execution (a re-trigger or a poll cycle) is in progress at any
\* instant.  Checked under SpecConc.
C1_OneExecutionPerSession ==
    \A s \in 1..Len(sessions) :
        Cardinality({i \in ExecIds : runs[i].kind # "none" /\ runs[i].sess = s}) <= 1

\* C2, as the specification states it: in every report document on disk a
\* key present in results is absent from errors.  Checked under SpecPipe.
C2_ResultsDisjointFromErrors ==
    DOMAIN reportFile.results \cap DOMAIN reportFile.errors = {}

\* C3, as the specification states it: the registered session's browser
\* handle is live, or a disconnect observer is relaunching it (or the stop
\* route is removing the session).  Checked under Spec.
C3_RegisteredHandleLive ==
    watchSessions # Null =>
        \/ browsers[sessions[watchSessions].browser].state = "open"
        \/ \E d \in 1..Len(browsers) :
              /\ browsers[d].h \in {"launching", "context", "page"}
              /\ browsers[d].hs = watchSessions
        \/ stopReq.pc = "closing"

\* C4: when the browser a registered session currently holds disconnects, the
\* first observer starts one relaunch (its own, and no other observer moves);
\* the observer of a relaunched browser removes the session, cancels its
\* timer and starts no relaunch; an observer that has called launchBrowser
\* never calls it again.  Checked under Spec.
C4_OneRelaunchThenGiveUp ==
    [][\A b \in 1..Len(browsers) :
          /\ (/\ watchSessions # Null
              /\ sessions[watchSessions].browser = b
              /\ browsers[b].state = "open"
              /\ browsers'[b].state # "open") =>
                 /\ browsers[b].listener = "first" =>
                       /\ browsers[b].h = "idle"
                       /\ browsers'[b].h = "launching"
                       /\ browsers'[b].hs = watchSessions
                       /\ Len(browsers') = Len(browsers)
                       /\ \A d \in 1..Len(browsers) \ {b} : browsers'[d].h = browsers[d].h
                 /\ browsers[b].listener = "second" =>
                       /\ watchSessions' = Null
                       /\ watchSessions \notin timers'
                       /\ Len(browsers') = Len(browsers)
                       /\ \A d \in 1..Len(browsers) : browsers'[d].h = browsers[d].h
          /\ browsers[b].h \in {"context", "page", "done"} =>
                 browsers'[b].h \in {"context", "page", "done"}
      ]_vars

\* C4 witness: the relaunched browser has died and the session is gone.
C4_Witness ==
    \E b \in 1..Len(browsers) :
        /\ browsers[b].listener = "second"
        /\ browsers[b].state = "dead"
        /\ watchSessions = Null

C7_FlagOnlyWhileExecuting ==
    \A s \in 1..Len(sessions) :
        sessions[s].reviewInProgress =>
            \E i \in ExecIds : runs[i].kind # "none" /\ runs[i].sess = s

\* C8, as the specification states it: a stop on an id whose session has
\* already been stopped is answered as a success.  Checked under Spec.
C8_SecondStopSucceeds ==
    [][(StopBegin /\ watchSessions = Null /\ stopResp = StatusOk) =>
           stopResp' = StatusOk]_vars

\* C8, amended: when a stop completes, the session's poll timer is cancelled
\* and the session is no longer listed; a stop on an id without a registered
\* session (a second stop in particular) changes nothing and is answered
\* 404.  Checked under Spec.
C8_StopThenNotFound ==
    [][/\ StopFinish =>
             /\ stopReq.s \notin timers'
             /\ stopReq.s \notin (IF watchSessions' = Null THEN {} ELSE {watchSessions'})
       /\ (StopBegin /\ watchSessions = Null) =>
             /\ stopResp' = NotFound
             /\ UNCHANGED <<watchSessions, sessions, browsers, timers, reportFile,
                            shots, runs, throwaway>>
      ]_vars

\* C8 witness: a polling session was stopped, and a second stop was answered
\* 404.
C8_Witness ==
    /\ stopResp = NotFound
    /\ events = 0
    /\ Len(sessions) = 1
    /\ sessions[1].pollTimer
    /\ timers = {}
    /\ watchSessions = Null

\* C9: in every report document on disk, summary.pages is the number of keys
\* of results, summary.issues the number of issues over all results, and
\* summary.critical / warning / suggestion the number of issues of that
\* severity.  Checked under SpecPipe.
C9_SummaryMatchesResults ==
    LET res == reportFile.results
        slots == {x \in (DOMAIN res) \X (1..MaxIssues) : x[2] <= Len(res[x[1]].issues)}
        having(sev) == Cardinality({x \in slots : res[x[1]].issues[x[2]].severity = sev})
    IN /\ reportFile.summary.pages = Cardinality(DOMAIN res)
       /\ reportFile.summary.issues = Cardinality(slots)
       /\ reportFile.summary.critical = having("critical")
       /\ reportFile.summary.warning = having("warning")
       /\ reportFile.summary.suggestion = having("suggestion")

\* C9 witness: a document with several results and issues of every severity.
C9_Witness ==
    /\ Cardinality(DOMAIN reportFile.results) >= 2
    /\ reportFile.summary.critical >= 1
    /\ reportFile.summary.warning >= 1
    /\ reportFile.summary.suggestion >= 1

\* C10: when the token fetch of page p fails in a review run, every key of p
\* gets the token-generation error in the saved report, results and the
\* other errors stay as they are, nothing is captured, and the run goes on
\* with the next page that has work (or ends normally when none has); for
\* the rest of the run the keys of p keep that error and are never captured,
\* and the final document still carries it.  Checked under SpecPipe.
C10_TokenFailureSkipsPage ==
    /\ [](\A i \in ExecIds : \A p \in runs[i].tokFailed : \A v \in 1..runs[i].nv :
             /\ resultKey(runs[i].pages[p], v) \in DOMAIN runs[i].report.errors
             /\ runs[i].report.errors[resultKey(runs[i].pages[p], v)] = TokenError
             /\ resultKey(runs[i].pages[p], v) \notin runs[i].captured)
    /\ [][\A i \in ExecIds :
             /\ (runs[i].kind = "review" /\ runs'[i].kind = "none") =>
                    \A p \in runs[i].tokFailed : \A v \in 1..runs[i].nv :
                        /\ resultKey(runs[i].pages[p], v) \in DOMAIN reportFile'.errors
                        /\ reportFile'.errors[resultKey(runs[i].pages[p], v)] = TokenError
             /\ (\E tok \in Tokens : ReviewToken(i, FALSE, tok)) =>
                    LET e == runs[i]
                        keys == {resultKey(e.pages[e.p], v) : v \in 1..e.nv}
                        work(q) == \/ HasTokenAuth(e.pages[q]) /\ e.auth
                                   \/ \E v \in 1..e.nv :
                                         resultKey(e.pages[q], v) \notin e.skip
                    IN /\ DOMAIN reportFile'.errors = DOMAIN e.report.errors \cup keys
                       /\ \A k \in keys : reportFile'.errors[k] = TokenError
                       /\ \A k \in DOMAIN e.report.errors \ keys :
                             reportFile'.errors[k] = e.report.errors[k]
                       /\ reportFile'.results = e.report.results
                       /\ shots' = shots
                       /\ throwaway' = throwaway
                       /\ IF e.aborted \/ \A q \in (e.p + 1)..e.np : ~work(q)
                          THEN /\ runs'[i].kind = "none"
                               /\ reportFile'.status =
                                     IF e.aborted THEN "interrupted" ELSE "complete"
                          ELSE /\ runs'[i].kind = "review"
                               /\ runs'[i].pc \in {"token", "capture"}
                               /\ runs'[i].p > e.p
                               /\ work(runs'[i].p)
                               /\ \A q \in (e.p + 1)..(runs'[i].p - 1) : ~work(q)
                               /\ runs'[i].tokFailed = e.tokFailed \cup {e.p}
                               /\ runs'[i].captured = e.captured
         ]_vars

\* C10 witness: the token fetch of page 1 failed and the run is analysing a
\* key of page 2, with every viewport requested.
C10_Witness ==
    /\ runs[1].kind = "review"
    /\ runs[1].tokFailed = {1}
    /\ runs[1].p = 2
    /\ runs[1].pc = "analyze"
    /\ runs[1].nv = NumViewports

\* C11: in a poll cycle, a successful re-capture whose raster is judged
\* unchanged against the stored screenshot starts no analysis, leaves every
\* stored screenshot as it is, and leaves the key's entries in results and
\* errors (of the cycle's report, or of the saved document when the cycle
\* ends with this key) as they were.  Checked under SpecPipe.
C11_UnchangedKeyUntouched ==
    [][\A i \in ExecIds : \A r \in Rasters :
          LET e == runs[i]
              key == resultKey(e.pages[e.p], e.v)
              after == IF runs'[i].kind = "poll" THEN runs'[i].report ELSE reportFile'
          IN (/\ e.kind = "poll" /\ e.pc = "capture"
              /\ key \in DOMAIN shots
              /\ ~screenshotsChanged(Picture(shots[key]), Picture(r), DefaultThreshold)
              /\ PollCapture(i, TRUE, r)) =>
                 /\ shots' = shots
                 /\ runs'[i].pc # "analyze"
                 /\ runs'[i].kind = "poll" => runs'[i].report = e.report
                 /\ (key \in DOMAIN after.results) = (key \in DOMAIN e.report.results)
                 /\ key \in DOMAIN e.report.results =>
                        after.results[key] = e.report.results[key]
                 /\ (key \in DOMAIN after.errors) = (key \in DOMAIN e.report.errors)
                 /\ key \in DOMAIN e.report.errors =>
                        after.errors[key] = e.report.errors[key]
      ]_vars

\* C11 witness: a poll cycle stands at the second viewport of page 1 and no
\* environment event has happened, so the first key was re-captured with the
\* raster already stored for it and was passed over.
C11_Witness ==
    /\ runs[1].kind = "poll"
    /\ runs[1].pc = "capture"
    /\ runs[1].p = 1 /\ runs[1].v = 2
    /\ events = 0
    /\ resultKey(runs[1].pages[1], 1) \in DOMAIN shots
    /\ resultKey(runs[1].pages[1], 1) \in DOMAIN runs[1].report.results

\* C12, as the specification states it: within one review run each key is
\* committed to the report at most once.  Checked under SpecClient.
C12_OneCommitPerKey ==
    \A i \in ExecIds : \A a, b \in 1..Len(runs[i].committed) :
        a # b => runs[i].committed[a] # runs[i].committed[b]

\* C13: when the capture or the analysis of a key fails in a review run, the
\* error is saved under that key, results and the other errors stay as they
\* are, and the run goes on with the next key that has work (the next
\* viewport of the page, else the next page with work); when none is left
\* or the client has gone it ends with status complete resp. interrupted.
\* A run that ends in its page loop without a client disconnect ends with
\* status complete.  Checked under SpecPipe.
C13_KeyFailureDoesNotAbort ==
    [][\A i \in ExecIds :
          LET e == runs[i]
              key == resultKey(e.pages[e.p], e.v)
              rest == {w \in (e.v + 1)..e.nv : resultKey(e.pages[e.p], w) \notin e.skip}
              work(q) == \/ HasTokenAuth(e.pages[q]) /\ e.auth
                         \/ \E w \in 1..e.nv : resultKey(e.pages[q], w) \notin e.skip
          IN /\ (/\ e.kind = "review" /\ runs'[i].kind = "none"
                 /\ e.pc \in {"token", "capture", "shoot", "analyze", "reformat"}
                 /\ ~e.aborted) => reportFile'.status = "complete"
             /\ (\/ \E r \in Rasters : ReviewCapture(i, FALSE, r)
                 \/ \E r \in Rasters : ReviewShoot(i, FALSE, r)
                 \/ \E t \in Texts : ReviewAnalyze(i, TRUE, t)) =>
                    /\ key \in DOMAIN reportFile'.errors
                    /\ reportFile'.errors[key].message =
                          IF e.pc = "analyze" THEN AnalysisError.message
                          ELSE CaptureError(Null).message
                    /\ DOMAIN reportFile'.errors = DOMAIN e.report.errors \cup {key}
                    /\ \A k \in DOMAIN e.report.errors \ {key} :
                          reportFile'.errors[k] = e.report.errors[k]
                    /\ reportFile'.results = e.report.results
                    /\ reportFile'.status # "error"
                    /\ IF e.aborted \/ (rest = {} /\ \A q \in (e.p + 1)..e.np : ~work(q))
                       THEN /\ runs'[i].kind = "none"
                            /\ reportFile'.status =
                                  IF e.aborted THEN "interrupted" ELSE "complete"
                       ELSE /\ runs'[i].kind = "review"
                            /\ runs'[i].report = reportFile'
                            /\ IF rest # {}
                               THEN /\ runs'[i].pc = "capture"
                                    /\ runs'[i].p = e.p
                                    /\ runs'[i].v \in rest
                                    /\ \A w \in rest : runs'[i].v <= w
                               ELSE /\ runs'[i].pc \in {"token", "capture"}
                                    /\ runs'[i].p > e.p
                                    /\ work(runs'[i].p)
                                    /\ \A q \in (e.p + 1)..(runs'[i].p - 1) : ~work(q)
      ]_vars

\* C13 witness: the first key of a review run has its capture or analysis
\* error recorded and the run is capturing the second key of the same page.
C13_Witness ==
    /\ runs[1].kind = "review"
    /\ runs[1].pc = "capture"
    /\ runs[1].p = 1 /\ runs[1].v = 2
    /\ resultKey(runs[1].pages[1], 1) \in DOMAIN runs[1].report.errors
    /\ resultKey(runs[1].pages[1], 1) \notin runs[1].skip
    /\ events = MaxEvents

\* C14, as the specification states it: a review run whose client
\* disconnected leaves the report with status interrupted when it ends.
\* Checked under SpecClient.
C14_AbortedRunEndsInterrupted ==
    [][\A i \in ExecIds :
          (runs[i].kind = "review" /\ runs[i].aborted /\ runs'[i].kind = "none") =>
              reportFile'.status = "interrupted"
      ]_vars

\* C15, as the specification states it: for the report of any session at
\* most one execution is waiting for an analysis-service call (the analysis
\* of a key or its reformat call) at any instant.  Checked under SpecConc.
C15_OneAnalysisInFlight ==
    \A s \in 1..Len(sessions) :
        Cardinality({i \in ExecIds : /\ runs[i].kind # "none"
                                     /\ runs[i].sess = s
                                     /\ runs[i].pc \in {"analyze", "reformat"}}) <= 1

\* C16, as the specification states it: no error record of the saved report
\* carries a value derived from a page token, so the saved errors are the
\* same whatever token the endpoint returned.  Checked under SpecPipe.
C16_NoTokenInSavedErrors ==
    \A k \in DOMAIN reportFile.errors : reportFile.errors[k].token = Null

\* C17, as the specification states it: when the shutdown sweep has
\* finished, the registry is empty and the session the sweep handled has no
\* poll timer armed and no open browser.  Checked under SpecShutdown.
C17_SweepLeavesNothingOpen ==
    shutdown.pc = "exited" =>
        /\ watchSessions = Null
        /\ shutdown.s # Null =>
              /\ shutdown.s \notin timers
              /\ ~BrowserOpen(sessions[shutdown.s].browser)

\* C18, as the specification states it: no two session objects, alive
\* together or one created after the other was removed, are ever registered
\* under the same id.  Checked under Spec.
C18_SessionIdNeverReused ==
    \A a, b \in 1..Len(sessions) : a # b => RegistryKey(a) # RegistryKey(b)

\* C19, as the specification states it: every capture a re-trigger or a
\* poll cycle issues on its shared page goes to the page the session holds
\* at that moment, never to one that crash recovery has replaced.  Checked
\* under Spec.
C19_CaptureOnCurrentPage ==
    [][\A i \in ExecIds :
          (/\ runs'[i].kind \in {"review", "poll"}
           /\ runs'[i].pc = "capture"
           /\ <<runs[i].kind, runs[i].pc, runs[i].p, runs[i].v>> #
                 <<runs'[i].kind, runs'[i].pc, runs'[i].p, runs'[i].v>>
           /\ runs'[i].sess # Null) =>
              runs'[i].page = sessions'[runs'[i].sess].page
      ]_vars

\* C20: the successful steps of a relaunch (launchBrowser, newContext,
\* newPage) leave the registry entry and the poll timers as they are and
\* change no session object except the one the observer holds, and of that
\* one only the browser and page handles; when the last step has succeeded
\* the session holds the new browser and its page, the new browser is open
\* and carries a disconnect observer.  Checked under Spec.
C20_RelaunchSwapsHandlesOnly ==
    [][\A b \in 1..Len(browsers) :
          LET hs == browsers[b].hs
              hn == browsers'[b].hn
          IN (\/ RelaunchLaunch(b, TRUE)
              \/ RelaunchContext(b, TRUE)
              \/ RelaunchPage(b, TRUE)) =>
                 /\ watchSessions' = watchSessions
                 /\ timers' = timers
                 /\ Len(sessions') = Len(sessions)
                 /\ \A s \in 1..Len(sessions) :
                       /\ s # hs => sessions'[s] = sessions[s]
                       /\ \A f \in DOMAIN sessions[s] \ {"browser", "page"} :
                             sessions'[s][f] = sessions[s][f]
                 /\ browsers'[b].h = "done" =>
                       /\ sessions'[hs].browser = hn
                       /\ sessions'[hs].page = hn
                       /\ browsers'[hn].state = "open"
                       /\ browsers'[hn].listener = "second"
      ]_vars

\* C20 witness: a relaunch has completed for the registered session, which
\* holds the new, observed browser and keeps its poll timer.
C20_Witness ==
    \E b \in 1..Len(browsers) :
        /\ browsers[b].h = "done"
        /\ browsers[b].hn # Null
        /\ watchSessions = browsers[b].hs
        /\ sessions[watchSessions].browser = browsers[b].hn
        /\ sessions[watchSessions].page = browsers[b].hn
        /\ browsers[browsers[b].hn].listener = "second"
        /\ browsers[browsers[b].hn].state = "open"
        /\ watchSessions \in timers

\* C21, as the specification states it: when a step of the relaunch fails,
\* the registry entry is gone, the poll timer of the session is cancelled
\* and the browser the attempt launched, if any, is not open.  Checked
\* under Spec.
C21_FailedRelaunchLeavesNoBrowser ==
    [][\A b \in 1..Len(browsers) :
          (\/ RelaunchLaunch(b, FALSE)
           \/ RelaunchContext(b, FALSE)
           \/ RelaunchPage(b, FALSE)) =>
              /\ watchSessions' = Null
              /\ browsers[b].hs \notin timers'
              /\ browsers[b].hn # Null => browsers'[browsers[b].hn].state # "open"
      ]_vars

\* C22, as the specification states it: when the browser launch of a
\* persistent run, or the health check or prewarm of any run, fails, the run
\* ends and the saved report has status error.  Checked under Spec.
C22_InvalidatedRunMarkedError ==
    [][\A i \in ExecIds :
          (ReviewLaunch(i, FALSE) \/ ReviewWarm(i, FALSE)) =>
              /\ runs'[i].kind = "none"
              /\ reportFile'.status = "error"
      ]_vars

\* C23, as the specification states it: when the sitemap yields n >= 1
\* unique same-origin paths, discoverPages returns source sitemap, exactly
\* min(n, maxPages) pages, the first ones in sitemap order and each once,
\* totalLinksFound = n, pagesSkipped = max(0, n - maxPages), and does not
\* crawl.  Checked under SpecDiscover.
C23_SitemapPagesCapped ==
    LET unique == {normalizePath(calc.locs[k]) : k \in 1..Len(calc.locs)} \ {Null}
        n == Cardinality(unique)
        out == calc.out
    IN (calc.fn = "discoverPages" /\ out # NoOutput /\ n >= 1) =>
          /\ out.source = "sitemap"
          /\ ~out.crawled
          /\ Len(out.pages) = Min(n, calc.maxPages)
          /\ \A a, b \in 1..Len(out.pages) : a # b => out.pages[a] # out.pages[b]
          /\ \A a \in 1..Len(out.pages) : out.pages[a] \in unique
          /\ out.totalLinksFound = n
          /\ out.pagesSkipped = (IF n - calc.maxPages > 0 THEN n - calc.maxPages ELSE 0)

\* C24: for all decoded rasters A and B and every threshold >= 0,
\* screenshotsChanged(A, A) is false and screenshotsChanged(A, B) equals
\* screenshotsChanged(B, A); rasters of different dimensions are changed,
\* in both directions, without a pixel comparison.  Checked under SpecDiff.
C24_DiffReflexiveSymmetric ==
    (calc.fn = "screenshotsChanged" /\ calc.out # NoOutput) =>
        /\ ~calc.out.aa.changed
        /\ calc.out.ab.changed = calc.out.ba.changed
        /\ (calc.a.width # calc.b.width \/ calc.a.height # calc.b.height) =>
              /\ calc.out.ab = [changed |-> TRUE, compared |-> FALSE]
              /\ calc.out.ba = [changed |-> TRUE, compared |-> FALSE]

\* C24 witness: two different rasters of the same dimensions were compared
\* pixel by pixel in both directions and found changed.
C24_Witness ==
    /\ calc.fn = "screenshotsChanged"
    /\ calc.out # NoOutput
    /\ calc.a # calc.b
    /\ calc.a.width = calc.b.width
    /\ calc.out.ab = [changed |-> TRUE, compared |-> TRUE]
    /\ calc.out.ba = [changed |-> TRUE, compared |-> TRUE]

\* C25, as the specification states it: a request whose poll interval lies
\* below the one-minute floor is refused: its run never registers a session.
\* Checked under SpecClient.
C25_BelowFloorRefused ==
    [][\A i \in ExecIds :
          (/\ runs[i].kind = "review"
           /\ runs[i].poll > 0
           /\ runs[i].poll < MinPollInterval) =>
              /\ Len(sessions') = Len(sessions)
              /\ watchSessions' = watchSessions
      ]_vars

\* C26, as the specification states it: a re-trigger of a registered session
\* that supplies neither a page list nor a viewport list runs over the
\* session's stored pages and stored viewports.  Checked under SpecClient.
C26_RetriggerUsesStoredLists ==
    [][\A i \in ExecIds, wm \in BOOLEAN, poll \in {0, BelowFloor} :
          (/\ watchSessions # Null
           /\ ReviewStart(i, TRUE, wm, poll, FALSE, <<>>, 0, NoSkip)) =>
              /\ runs'[i].pages = sessions[watchSessions].pages
              /\ runs'[i].nv = sessions[watchSessions].nv
      ]_vars

\* C27, as the specification states it: when an event cannot be written to
\* the response stream of a run, the key being processed does not become an
\* error and the report does not end with status error.  Checked under
\* SpecNotify.
C27_UndeliveredEventIgnored ==
    [][\A i \in ExecIds, r \in Rasters :
          ReviewCaptureUndelivered(i, r) =>
              LET key == resultKey(runs[i].pages[runs[i].p], runs[i].v)
              IN /\ reportFile'.status # "error"
                 /\ key \in DOMAIN reportFile'.errors => key \in DOMAIN runs[i].report.errors
      ]_vars

\* C28, as the specification states it: when the relaunched browser of a
\* registered session disconnects after a capture on it has succeeded, the
\* session stays registered and one relaunch is attempted.  Checked under
\* Spec.
C28_SupervisorRearms ==
    [][\A b \in BrowserIds :
          (/\ Crash(b)
           /\ browsers[b].listener = "second"
           /\ watchSessions # Null
           /\ \E i \in ExecIds : /\ runs[i].kind \in {"review", "poll"}
                                 /\ runs[i].page = b
                                 /\ runs[i].pc = "analyze") =>
              /\ watchSessions' = watchSessions
              /\ browsers'[b].h = "launching"
      ]_vars

\* C29, as the specification states it: in every reachable state each armed
\* poll timer belongs to the session object that is registered, and that
\* object's pollTimer field says so.  Checked under Spec.
C29_TimerOnlyWhileRegistered ==
    \A t \in timers : watchSessions = t /\ sessions[t].pollTimer

\* C30, as the specification states it: a key whose analysis failed in a
\* poll cycle is analysed again as soon as a later cycle has captured it,
\* whether or not the page has changed.  Checked under SpecPoll.
C30_FailedAnalysisRetried ==
    [][\A i \in ExecIds, r \in Rasters :
          LET e == runs[i]
              key == resultKey(e.pages[e.p], e.v)
          IN (/\ PollCapture(i, TRUE, r)
              /\ key \in DOMAIN e.report.errors
              /\ e.report.errors[key] = PollError(AnalysisError)) =>
                 /\ runs'[i].pc = "analyze"
                 /\ runs'[i].p = e.p
                 /\ runs'[i].v = e.v
      ]_vars

\* C31, as the specification states it: a poll cycle treats the response of
\* the analysis service as the review pipeline does; in particular, when the
\* response is unstructured and the re-parse of its summary does not help,
\* the key is not committed before one reformat call has been made for it.
\* Checked under SpecPoll.
C31_PollRunsReviewFallbacks ==
    [][\A i \in ExecIds, t \in Texts :
          LET e == runs[i]
              result == Fallback1(sanitizeResult(parseVlmJson(t)))
          IN (/\ PollAnalyze(i, FALSE, t)
              /\ result.raw
              /\ Truthy(result.summary)) =>
                 /\ runs'[i].pc = "reformat"
                 /\ runs'[i].p = e.p
                 /\ runs'[i].v = e.v
      ]_vars

\* C32, as the specification states it: a run or cycle that has auth state
\* available, from its request or from its session, is never about to
\* capture a page that declares tokenAuth without holding a token for it.
\* Checked under SpecPipe.
C32_TokenAuthPageHasToken ==
    \A i \in ExecIds :
        LET e == runs[i]
        IN (/\ e.kind \in {"review", "poll"}
            /\ e.pc = "capture"
            /\ HasTokenAuth(e.pages[e.p])
            /\ (e.auth \/ (e.sess # Null /\ sessions[e.sess].auth))) =>
               e.token # Null

\* C33: per key of a review run, a structured primary response (or a summary
\* that re-parses) is committed without a reformat call; a reformat call is
\* pending only for a result that is unstructured after the re-parse; the
\* reformat call is made once and always ends in a commit of the key with no
\* error recorded, and when it throws or returns unparsable text the
\* original unstructured result is what is stored.  Checked under
\* SpecFallback.
C33_FallbackTiersInOrder ==
    [][\A i \in ExecIds, t \in Texts :
          LET e == runs[i]
              key == resultKey(e.pages[e.p], e.v)
              primary == sanitizeResult(parseVlmJson(t))
              retried == parseVlmJson(SummaryText(primary.summary))
          IN /\ (ReviewAnalyze(i, FALSE, t) /\ ~primary.raw) =>
                   /\ reportFile'.results[key] = Stored(primary)
                   /\ runs'[i].pc # "reformat"
             /\ (ReviewAnalyze(i, FALSE, t) /\ primary.raw /\ ~retried.raw) =>
                   /\ reportFile'.results[key] = Stored(sanitizeResult(retried))
                   /\ runs'[i].pc # "reformat"
             /\ (ReviewAnalyze(i, FALSE, t) /\ runs'[i].pc = "reformat") =>
                   /\ primary.raw /\ retried.raw
                   /\ runs'[i].result = primary
                   /\ runs'[i].p = e.p /\ runs'[i].v = e.v
             /\ \A th \in BOOLEAN :
                   ReviewReformat(i, th, t) =>
                      /\ runs'[i].pc # "reformat"
                      /\ key \in DOMAIN reportFile'.results
                      /\ key \notin DOMAIN reportFile'.errors
                      /\ (th \/ parseVlmJson(t).raw) =>
                            /\ reportFile'.results[key] = Stored(e.result)
                            /\ reportFile'.results[key].raw
                      /\ (~th /\ ~parseVlmJson(t).raw) =>
                            reportFile'.results[key] = Stored(sanitizeResult(parseVlmJson(t)))
      ]_vars

\* C33 witness: a run is over whose key went through every tier in vain: the
\* unstructured result is stored and the key has no error.
C33_Witness ==
    /\ runs[1].kind = "none"
    /\ reportFile.status = "complete"
    /\ <<1, 1>> \in DOMAIN reportFile.results
    /\ reportFile.results[<<1, 1>>].raw
    /\ <<1, 1>> \notin DOMAIN reportFile.errors

\* C34: sanitizeResult returns at most 10 issues, each with a severity of
\* the severity set and a category of the category set, critical before
\* warning before suggestion; every issue returned is an issue of the input,
\* no more often than the input holds it, and when the input holds at most
\* 10 valid issues each of them is returned exactly as often as the input
\* holds it.  Checked under SpecSanitize.
C34_SanitizedIssues ==
    (calc.fn = "sanitizeResult" /\ calc.out # NoOutput) =>
        LET input == calc.data.issues
            out == calc.out.issues
            Rank(x) == CASE x.severity = "critical" -> 0
                         [] x.severity = "warning" -> 1
                         [] x.severity = "suggestion" -> 2
            Valid(x) == /\ x.severity \in {"critical", "warning", "suggestion"}
                        /\ x.category \in CATEGORIES
                        /\ x.description
            Times(list, x) == Cardinality({k \in 1..Len(list) : list[k] = x})
            valid == {k \in 1..Len(input) : Valid(input[k])}
        IN /\ Len(out) <= 10
           /\ \A k \in 1..Len(out) : Valid(out[k]) /\ Times(out, out[k]) <= Times(input, out[k])
           /\ \A j, k \in 1..Len(out) : j < k => Rank(out[j]) <= Rank(out[k])
           /\ Cardinality(valid) <= 10 =>
                 /\ Len(out) = Cardinality(valid)
                 /\ \A k \in valid : Times(out, input[k]) = Times(input, input[k])

\* C34 witness: an input of more than 10 entries, some of them unrecognized
\* and at most 10 of them valid, in an order that is not the severity order,
\* has been sanitized.
C34_Witness ==
    /\ calc.fn = "sanitizeResult"
    /\ calc.out # NoOutput
    /\ Len(calc.data.issues) > 10
    /\ Len(calc.out.issues) \in 2..9
    /\ Len(calc.out.issues) < Len(calc.data.issues)
    /\ calc.out.issues # FilterValid(calc.data.issues)

C36_StopStartsNoRelaunch ==
    [][(StopBegin \/ ShutdownBegin) =>
          \A b \in 1..Len(browsers) :
              browsers'[b].h = "launching" => browsers[b].h = "launching"
      ]_vars

\* C37, as the specification states it: when a browser dies that is not the
\* current browser of the session registered under the report id, the
\* registry entry stays and no relaunch starts.  Checked under SpecStale.
C37_StaleDisconnectIgnored ==
    [][\A b \in BrowserIds :
          (/\ Crash(b)
           /\ watchSessions # Null
           /\ sessions[watchSessions].browser # b) =>
              /\ watchSessions' = watchSessions
              /\ browsers'[b].h = browsers[b].h
      ]_vars

\* C38, as the specification states it: in every reachable state each open
\* browser is the current browser of the registered session or of a first
\* persistent run in progress (or is being installed by the relaunch of the
\* registered session).  Checked under Spec.
C38_NoUnreferencedBrowser ==
    \A b \in 1..Len(browsers) :
        browsers[b].state = "open" =>
            \/ watchSessions # Null /\ sessions[watchSessions].browser = b
            \/ \E i \in ExecIds : runs[i].first /\ runs[i].browser = b
            \/ \E o \in 1..Len(browsers) :
                   /\ browsers[o].h \in {"context", "page"}
                   /\ browsers[o].hn = b
                   /\ watchSessions # Null
                   /\ browsers[o].hs = watchSessions

\* C39, as the specification states it: a review run and a poll cycle never
\* have the report loaded at the same time, and no save of the report
\* removes a result that is on disk when a poll cycle ends.  Checked
\* under SpecConc.
C39_NoStaleReportSave ==
    /\ [](\A i, j \in ExecIds : ~(runs[i].kind = "review" /\ runs[j].kind = "poll"))
    /\ [][(\E i \in ExecIds : runs[i].kind = "poll" /\ runs'[i].kind # "poll")
             => DOMAIN reportFile.results \subseteq DOMAIN reportFile'.results]_vars

\* the number of keys of run e that lie before its position in the page by
\* viewport order
Position(e) == IF e.p = 0 THEN 0 ELSE (e.p - 1) * e.nv + e.v

\* C40: given no skipCompleted list, a run on a report with no registered
\* session never captures or analyzes a key that is in the report's results
\* and no step of it changes or removes a stored result, whereas a re-trigger
\* of a registered session passes over no key: its position advances by at
\* most one key per step, unless a token failure abandons a page.  Checked
\* under SpecPipe, where no request carries a skipCompleted list.
C40_ResumeSkipsRetriggerDoesNot ==
    /\ [](\A i \in ExecIds :
            (/\ runs[i].kind = "review" /\ runs[i].sess = Null
             /\ runs[i].pc \in {"capture", "shoot", "analyze", "reformat"})
            => resultKey(runs[i].pages[runs[i].p], runs[i].v) \notin DOMAIN runs[i].report.results)
    /\ [][\A i \in ExecIds :
            (runs'[i].kind = "review" /\ runs'[i].sess = Null)
            => \A k \in DOMAIN reportFile.results :
                  /\ k \in DOMAIN reportFile'.results
                  /\ reportFile'.results[k] = reportFile.results[k]]_vars
    /\ [][\A i \in ExecIds :
            (/\ runs[i].kind = "review" /\ runs'[i].kind = "review"
             /\ runs'[i].sess # Null
             /\ runs'[i].tokFailed = runs[i].tokFailed)
            => Position(runs'[i]) <= Position(runs[i]) + 1]_vars

\* a resumed run without a session has passed over stored results and is
\* capturing a key that has none
C40_Witness ==
    \E i \in ExecIds :
       /\ runs[i].kind = "review" /\ runs[i].sess = Null /\ runs[i].pc = "capture"
       /\ runs[i].skip # {} /\ Position(runs[i]) >= 2
       /\ runs[i].skip = DOMAIN reportFile.results

====
